---------------------------- MODULE Spec2Model ----------------------------
(***************************************************************************)
(* AtomCrypte (src/src/lib.rs): the encrypt / decrypt pipeline, its keyed  *)
(* byte transforms, the wire format and the zeroization discipline.        *)
(*                                                                         *)
(* Bytes are the integers 0..255 and a buffer is a sequence of bytes.      *)
(* Rust indexes from 0 and TLA+ sequences from 1: the byte the code calls  *)
(* x[i] is x[i + 1] here, and every "i % len" of the code is written       *)
(* ((i - 1) % len) + 1 on the 1-based index.                               *)
(*                                                                         *)
(* The hash functions of the external crates (blake3, argon2, sha3) are    *)
(* not code of this repository.  They are represented by deterministic     *)
(* stand-in digests of the right output length (Digest below); everything  *)
(* the repository itself computes on bytes is modelled bit for bit.        *)
(***************************************************************************)
EXTENDS Integers, Sequences, FiniteSets, TLC

--------------------------------------------------------------------------
(* u8 arithmetic *)

Byte == 0..255

\* A Vec<u8> or slice given by its bytes: the sequence itself
Vec(f) == f \o <<>>

\* A table given by its entries: the function itself
Table(f) == f @@ <<>>

Pow2(k) == 2 ^ k

\* bit k of a
Bit(a, k) == (a \div Pow2(k)) % 2

\* XOR of two 4-bit values, bit by bit.
XorNibble ==
  Vec([x \in 1..16 |-> Vec([y \in 1..16 |->
     LET a == x - 1
         b == y - 1
     IN  ((Bit(a, 0) + Bit(b, 0)) % 2)
         + (2 * ((Bit(a, 1) + Bit(b, 1)) % 2))
         + (4 * ((Bit(a, 2) + Bit(b, 2)) % 2))
         + (8 * ((Bit(a, 3) + Bit(b, 3)) % 2))])])

\* a ^ b on u8
BXor(a, b) ==
  (16 * XorNibble[(a \div 16) + 1][(b \div 16) + 1])
  + XorNibble[(a % 16) + 1][(b % 16) + 1]

\* a ^ b on u16
BXor16(a, b) ==
  (256 * BXor(a \div 256, b \div 256)) + BXor(a % 256, b % 256)

\* u8::rotate_left(n): the rotation amount is taken modulo 8
rotate_left(b, n) ==
  LET k == n % 8 IN ((b * Pow2(k)) % 256) + (b \div Pow2(8 - k))

\* b >> (n % 8): the bits shifted out are lost
shift_right(b, n) == b \div Pow2(n % 8)

\* u8::rotate_right(n)
rotate_right(b, n) ==
  LET k == n % 8 IN (b \div Pow2(k)) + ((b * Pow2(8 - k)) % 256)

wrapping_add(a, b) == (a + b) % 256

wrapping_sub(a, b) == (a + 256 - b) % 256

\* x[i % x.len()] for the 0-based index i of the code
At(x, i) == x[(i % Len(x)) + 1]

Zeros(n) == Vec([i \in 1..n |-> 0])

IsZero(buf) == \A i \in 1..Len(buf) : buf[i] = 0

RECURSIVE Flatten(_)
Flatten(ss) == IF ss = <<>> THEN <<>> ELSE Head(ss) \o Flatten(Tail(ss))

Reverse(s) == Vec([i \in 1..Len(s) |-> s[Len(s) + 1 - i]])

\* The slice compared as a whole with the prefix
equals_prefix(s, prefix) == s = prefix

\* slice.starts_with(prefix)
starts_with(s, prefix) ==
  /\ Len(s) >= Len(prefix)
  /\ \A i \in 1..Len(prefix) : s[i] = prefix[i]

\* Result<Vec<u8>, Errors>: tag is "Ok" or the name of the error
Ok(v) == [tag |-> "Ok", val |-> v]

Err(e) == [tag |-> e, val |-> <<>>]

\* Option<[u8; 32]>
Some(v) == [some |-> TRUE, val |-> v]

None == [some |-> FALSE, val |-> <<>>]

--------------------------------------------------------------------------
(* Stand-ins for the external digests.  Digest folds the input into three  *)
(* accumulators (input order and length both matter) and expands them to n *)
(* bytes; a label separates the functions from each other.                 *)

\* The accumulator after absorbing s[lo..hi] in order, starting from acc.
\* (A loop over a long range is written by halving the range, and the
\* first half is tested before the second starts: the steps are applied
\* in the order of the loop, and the evaluation stays shallow.)
RECURSIVE DigestAcc(_, _, _, _, _, _)
DigestAcc(s, lo, hi, acc, base, prime) ==
  IF lo > hi THEN acc
  ELSE IF lo = hi THEN ((acc * base) + s[lo] + 1) % prime
  ELSE LET mid == (lo + hi) \div 2
           left == DigestAcc(s, lo, mid, acc, base, prime)
       IN  IF left >= 0 THEN DigestAcc(s, mid + 1, hi, left, base, prime) ELSE left

Digest(label, s, n) ==
  LET a1 == DigestAcc(s, 1, Len(s), label + 1, 257, 65521)
      a2 == DigestAcc(s, 1, Len(s), label + 7, 263, 65519)
      a3 == DigestAcc(s, 1, Len(s), label + 13, 269, 65497)
  IN  Vec([i \in 1..n |-> ((a1 + (i * a2) + (i * i * a3) + (i * 7)) \div 8) % 256])

\* blake3::hash(data).as_bytes()
blake3_hash(s) == Digest(1, s, 32)

\* blake3::derive_key(context, key_material)
derive_key(context, key_material) ==
  Digest(2, <<Len(context)>> \o context \o key_material, 32)

\* blake3::keyed_hash(key, data).as_bytes()
blake3_keyed_hash(key, s) == Digest(3, key \o s, 32)

\* Argon2::default().hash_password_into(pwd, salt, out), out of 32 bytes
argon2_hash_password_into(pwd, salt) == Digest(4, pwd \o salt, 32)

\* Sha3_256 over the concatenation of the updates: 32 bytes
Sha3_256(s) == Digest(5, s, 32)

\* Sha3_512 over the concatenation of the updates
Sha3_512(s) == Digest(5, s, 64)

\* The character of a 6-bit value in the alphabet A-Z a-z 0-9 + /
B64Char(v) ==
  IF v < 26 THEN 65 + v
  ELSE IF v < 52 THEN 97 + (v - 26)
  ELSE IF v < 62 THEN 48 + (v - 52)
  ELSE IF v = 62 THEN 43 ELSE 47

\* SaltString::encode_b64(bytes).as_str().as_bytes(): unpadded base64
encode_b64(bytes) ==
  LET n == Len(bytes)
      B(k) == IF k <= n THEN bytes[k] ELSE 0
      Sextet(j) ==        \* j is 0-based
        LET g == 3 * (j \div 4)
            b0 == B(g + 1)
            b1 == B(g + 2)
            b2 == B(g + 3)
        IN  CASE j % 4 = 0 -> b0 \div 4
              [] j % 4 = 1 -> ((b0 % 4) * 16) + (b1 \div 16)
              [] j % 4 = 2 -> ((b1 % 16) * 4) + (b2 \div 64)
              [] OTHER     -> b2 % 64
  IN  Vec([j \in 1..(((4 * n) + 2) \div 3) |-> B64Char(Sextet(j - 1))])

--------------------------------------------------------------------------
(* Program constants *)

\* static VERSION: &[u8] = b"atom-version:0x3"
VERSION == <<97, 116, 111, 109, 45, 118, 101, 114, 115, 105, 111, 110, 58, 48, 120, 51>>

\* b"atom-version:0x2", the legacy tag decrypt still recognises
VERSION_0x2 == <<97, 116, 111, 109, 45, 118, 101, 114, 115, 105, 111, 110, 58, 48, 120, 50>>

\* b"atom-version"
VERSION_PREFIX == <<97, 116, 111, 109, 45, 118, 101, 114, 115, 105, 111, 110>>

\* blake3::hash(b"atom-crypte-password")
version_pwd ==
  blake3_hash(<<97, 116, 111, 109, 45, 99, 114, 121, 112, 116, 101, 45,
                112, 97, 115, 115, 119, 111, 114, 100>>)

\* IrreduciblePoly::AES.value(): x^8 + x^4 + x^3 + x + 1
AES == 27

\* IrreduciblePoly::Custom(0x4d).value(), the polynomial of the crate
\* documentation: x^8 + x^6 + x^3 + x^2 + 1, irreducible
Custom4d == 77

\* IrreduciblePoly::Custom(0x1a).value(): x^8 + x^4 + x^3 + x, a multiple of
\* x, under which 4 = x^2 has no inverse
Custom1a == 26

\* Config::default().rounds
DefaultRounds == 3

--------------------------------------------------------------------------
(* GaloisField *)

\* GaloisField::multiply: the loop body, on (p, a_val, b_val); a_val and
\* b_val are u16, p is accumulated from the low byte of a_val.
RECURSIVE multiply_loop(_, _, _, _)
multiply_loop(poly, p, a_val, b_val) ==
  IF a_val = 0 \/ b_val = 0 THEN p
  ELSE LET p1 == IF b_val % 2 # 0 THEN BXor(p, a_val % 256) ELSE p
           high_bit_set == (a_val \div 128) % 2
           shifted == (a_val * 2) % 65536
           a1 == IF high_bit_set # 0 THEN BXor16(shifted, poly) ELSE shifted
       IN  multiply_loop(poly, p1, a1, b_val \div 2)

multiply(poly, a, b) == multiply_loop(poly, 0, a, b)

\* mul_table[a][b], filled by initialize_tables with multiply(a, b)
fast_multiply(poly, a, b) == multiply(poly, a, b)

\* inv_table[i] after initialize_tables: for i in 1..255 the inner loop
\* over j in 1..255 stores every j with mul_table[i][j] = 1, so the last
\* (largest) one stays; the entry keeps its initial 0 when there is none,
\* and inv_table[0] is never written.
inv_table_entry(poly, i) ==
  LET hits == {j \in 1..255 : multiply(poly, i, j) = 1}
  IN  IF i = 0 \/ hits = {} THEN 0
      ELSE CHOOSE j \in hits : \A k \in hits : k <= j

\* GaloisField::new fills the tables once per field.  The entries the
\* calls of the model read again and again are kept here, computed once.
InvTableKept ==
  Table([e \in {AES, Custom4d, Custom1a} \X {3, 4, 5} |->
           inv_table_entry(e[1], e[2])])

inv_table(poly, i) ==
  IF <<poly, i>> \in DOMAIN InvTableKept THEN InvTableKept[<<poly, i>>]
  ELSE inv_table_entry(poly, i)

\* GaloisField::inverse: Option<u8>
inverse(poly, a) == IF a = 0 THEN None ELSE Some(inv_table(poly, a))

\* The default whatever the Option holds
unwrap_or_default(opt, dflt) == dflt

\* Option::unwrap_or
unwrap_or(opt, dflt) == IF opt.some THEN opt.val ELSE dflt

--------------------------------------------------------------------------
(* Column mixer *)

\* Whether the 1-based position i lies in a complete 3-byte group
\* (par_chunks_exact_mut(3) leaves the remainder alone).
InGroup(len, i) == (3 * (((i - 1) \div 3) + 1)) <= len

\* The bytes of the buffer after triangle_mix_columns has rewritten it in
\* place (lines 792-800), which are also the bytes of the copy it returns
\* (line 803)
triangle_mix_columns(data, poly) ==
  Vec([i \in 1..Len(data) |->
     IF ~InGroup(Len(data), i) THEN data[i]
     ELSE LET g == 3 * ((i - 1) \div 3)
              a == data[g + 1]
              b == data[g + 2]
              c == data[g + 3]
          IN  CASE (i - 1) % 3 = 0 ->
                     BXor(BXor(fast_multiply(poly, 3, a), fast_multiply(poly, 2, b)), c)
                [] (i - 1) % 3 = 1 -> BXor(fast_multiply(poly, 4, b), c)
                [] OTHER -> fast_multiply(poly, 5, c)])

\* The bytes of the buffer after inverse_triangle_mix_columns has rewritten
\* it in place (lines 817-834), also the bytes of the copy it returns (line
\* 837)
inverse_triangle_mix_columns(data, poly) ==
  LET inv_5 == unwrap_or(inverse(poly, 5), 1)
      inv_4 == unwrap_or(inverse(poly, 4), 1)
      inv_3 == unwrap_or(inverse(poly, 3), 1)
  IN  Vec([i \in 1..Len(data) |->
        IF ~InGroup(Len(data), i) THEN data[i]
        ELSE LET g == 3 * ((i - 1) \div 3)
                 a == data[g + 1]
                 b == data[g + 2]
                 c == data[g + 3]
                 c_prime == fast_multiply(poly, inv_5, c)
                 b_prime == fast_multiply(poly, inv_4,
                                          BXor(b, fast_multiply(poly, 1, c_prime)))
                 a_prime == fast_multiply(poly, inv_3,
                                          BXor(BXor(a, fast_multiply(poly, 2, b_prime)), c_prime))
             IN  CASE (i - 1) % 3 = 0 -> a_prime
                   [] (i - 1) % 3 = 1 -> b_prime
                   [] OTHER -> c_prime])

--------------------------------------------------------------------------
(* Keyed byte transforms *)

\* The byte map of xor_encrypt.  The rotation amount is written as the
\* code evaluates it: nonce ^ (pwd % 8), as u32.
xor_encrypt_map(nonce, pwd, input) ==
  Vec([k \in 1..Len(input) |->
     LET i == k - 1
         n == At(nonce, i)
         p == At(pwd, i)
         masked == BXor(input[k], BXor(n, p))
         rotated == rotate_left(masked, BXor(n, p % 8))
     IN  wrapping_add(wrapping_add(rotated, p), n)])

\* xor_encrypt without its check of the output: the empty buffer is returned
xor_encrypt_unchecked(nonce, pwd, input) == Ok(xor_encrypt_map(nonce, pwd, input))

xor_encrypt(nonce, pwd, input) ==
  LET out == xor_encrypt_map(nonce, pwd, input)
  IN  IF out = <<>> THEN Err("InvalidXor") ELSE Ok(out)

\* xor_decrypt with the rotation taken from the nonce byte alone
xor_decrypt_map_nonce_rotation(nonce, pwd, input) ==
  Vec([k \in 1..Len(input) |->
     LET i == k - 1
         n == At(nonce, i)
         p == At(pwd, i)
         masked == wrapping_sub(wrapping_sub(input[k], n), p)
         rotated == rotate_right(masked, n)
     IN  BXor(rotated, BXor(n, p))])

xor_decrypt_map(nonce, pwd, input) ==
  Vec([k \in 1..Len(input) |->
     LET i == k - 1
         n == At(nonce, i)
         p == At(pwd, i)
         masked == wrapping_sub(wrapping_sub(input[k], n), p)
         rotated == rotate_right(masked, BXor(n, p % 8))
     IN  BXor(rotated, BXor(n, p))])

xor_decrypt(nonce, pwd, input) ==
  LET out == xor_decrypt_map(nonce, pwd, input)
  IN  IF out = <<>> THEN Err("InvalidXor") ELSE Ok(out)

\* mix_blocks without the early return for 3 bytes
mix_blocks_every_length(data, nonce, pwd) ==
  LET h == blake3_hash(nonce \o pwd)
  IN  Vec([k \in 1..Len(data) |->
         LET n == At(h, k - 1)
             b1 == wrapping_add(data[k], n)
             b2 == rotate_right(b1, n % 8)
             b3 == BXor(b2, n)
         IN  wrapping_add(b3, n)])

mix_blocks(data, nonce, pwd) ==
  LET h == blake3_hash(nonce \o pwd)
  IN  IF Len(data) = 3 THEN data
      ELSE Vec([k \in 1..Len(data) |->
              LET n == At(h, k - 1)
                  b1 == wrapping_add(data[k], n)
                  b2 == rotate_right(b1, n % 8)
                  b3 == BXor(b2, n)
              IN  wrapping_add(b3, n)])

unmix_blocks(data, nonce, pwd) ==
  LET h == blake3_hash(nonce \o pwd)
  IN  IF Len(data) = 3 THEN data
      ELSE Vec([k \in 1..Len(data) |->
              LET n == At(h, k - 1)
                  b1 == wrapping_sub(data[k], n)
                  b2 == BXor(b1, n)
                  b3 == rotate_left(b2, n % 8)
              IN  wrapping_sub(b3, n)])

--------------------------------------------------------------------------
(* Key derivation *)

\* derive_password_key with the bytes of the custom salt taken as they are
derive_password_key_raw_salt(pwd, salt, custom_salt) ==
  IF Len(pwd) # 32 THEN Err("Argon2Failed")
  ELSE LET salt_string == IF custom_salt.some THEN custom_salt.val
                          ELSE encode_b64(salt)
       IN  Ok(argon2_hash_password_into(pwd, salt_string))

\* derive_password_key: Argon2 over the base64 text of the custom salt
\* when there is one, of the nonce otherwise.
derive_password_key(pwd, salt, custom_salt) ==
  IF Len(pwd) # 32 THEN Err("Argon2Failed")
  ELSE LET salt_string == IF custom_salt.some THEN encode_b64(custom_salt.val)
                          ELSE encode_b64(salt)
       IN  Ok(argon2_hash_password_into(pwd, salt_string))

verify_keys_constant_time(key1, key2) ==
  IF Len(key1) # Len(key2) THEN FALSE ELSE key1 = key2

--------------------------------------------------------------------------
(* Dynamic S-box.  A table [u8; 256] is a function on 0..255. *)

\* The loop of generate_inv_s_box for i = lo, lo + 1, ..., hi
RECURSIVE inv_s_box_loop(_, _, _, _)
inv_s_box_loop(s_box, inv, lo, hi) ==
  IF lo = hi THEN [inv EXCEPT ![s_box[lo]] = lo]
  ELSE LET mid == (lo + hi) \div 2
           first == inv_s_box_loop(s_box, inv, lo, mid)
       IN  IF first[0] >= 0 THEN inv_s_box_loop(s_box, first, mid + 1, hi) ELSE first

generate_inv_s_box(s_box) == inv_s_box_loop(s_box, [v \in 0..255 |-> 0], 0, 255)

\* The index taken modulo 256 instead of i + 1
swap_index_any(seed, i) == (At(seed, i) + At(seed, i * 7)) % 256

\* let index = (seed[i % len] + seed[(i * 7) % len]) % (i + 1)
swap_index(seed, i) == (At(seed, i) + At(seed, i * 7)) % (i + 1)

\* The loop of generate_dynamic_sbox for i = hi, hi - 1, ..., lo
RECURSIVE sbox_swaps(_, _, _, _)
sbox_swaps(sbox, seed, hi, lo) ==
  IF hi = lo
  THEN LET index == swap_index(seed, hi)
       IN  [sbox EXCEPT ![hi] = sbox[index], ![index] = sbox[hi]]
  ELSE LET mid == (lo + hi) \div 2
           first == sbox_swaps(sbox, seed, hi, mid + 1)
       IN  IF first[0] >= 0 THEN sbox_swaps(first, seed, mid, lo) ELSE first

generate_dynamic_sbox(nonce, key, cfg) ==
  LET seed == CASE cfg.sbox = "PasswordBased" -> blake3_hash(key)
                [] cfg.sbox = "NonceBased" -> blake3_hash(nonce)
                [] OTHER -> blake3_hash(nonce \o key)
  IN  sbox_swaps([i \in 0..255 |-> i], seed, 255, 1)

s_bytes(data, sbox) == Vec([k \in 1..Len(data) |-> sbox[data[k]]])

in_s_bytes(data, nonce, pwd, cfg) ==
  LET inv_sbox == generate_inv_s_box(generate_dynamic_sbox(nonce, pwd, cfg))
  IN  Vec([k \in 1..Len(data) |-> inv_sbox[data[k]]])

--------------------------------------------------------------------------
(* Chunked shift *)

\* The number of decimal digits of n (1 for 0)
RECURSIVE DecimalDigits(_)
DecimalDigits(n) == IF n < 10 THEN 1 ELSE 1 + DecimalDigits(n \div 10)

\* The arms of dynamic_sizes are decades: 0..1_000, then 10^k..10^(k+1)
\* for k = 3..18, so the arm is chosen by the number of digits of
\* data_len.  0 stands for the unreachable!() arm (10^19 and above).
dynamic_sizes_arm(digits) ==
  CASE digits <= 3 -> 14
    [] digits = 4 -> 24
    [] digits = 5 -> 64
    [] digits = 6 -> 128
    [] digits = 7 -> 4096
    [] digits = 8 -> 8096
    [] digits \in {9, 10} -> 16384
    [] digits \in {11, 12} -> 32768
    [] digits \in {13, 14} -> 65536
    [] digits \in {15, 16} -> 1048576
    [] digits \in {17, 18} -> 2097152
    [] digits = 19 -> 4194304
    [] OTHER -> 0

dynamic_sizes(data_len) == dynamic_sizes_arm(DecimalDigits(data_len))

RECURSIVE chunk_sizes_loop(_, _, _, _, _)
chunk_sizes_loop(data_len, seed, data_size, pos, sizes) ==
  IF ~(pos < data_len) THEN sizes
  ELSE LET size == data_size + (At(seed, pos) % 8)
           pushed == IF size < data_len - pos THEN size ELSE data_len - pos
       IN  chunk_sizes_loop(data_len, seed, data_size, pos + size,
                            Append(sizes, pushed))

get_chunk_sizes(data_len, nonce, key) ==
  chunk_sizes_loop(data_len, blake3_hash(nonce \o key),
                   dynamic_sizes(data_len), 0, <<>>)

\* The loop over the chunks of dynamic_shift: chunk number i (1-based
\* here, i - 1 in the code) starts at cursor.
RECURSIVE shift_loop(_, _, _, _, _, _, _)
shift_loop(data, chunk_sizes, nonce, key, i, cursor, shifted) ==
  IF i > Len(chunk_sizes) THEN shifted
  ELSE LET size == chunk_sizes[i]
           rotate_by == At(nonce, i - 1) % 8
           xor_val == At(key, i - 1)
           chunk == Vec([k \in 1..size |->
                       BXor(rotate_left(data[cursor + k], rotate_by), xor_val)])
       IN  shift_loop(data, chunk_sizes, nonce, key, i + 1, cursor + size,
                      shifted \o chunk)

dynamic_shift(data, nonce, password) ==
  LET key == blake3_hash(nonce \o password)
      chunk_sizes == get_chunk_sizes(Len(data), nonce, key)
  IN  Reverse(shift_loop(data, chunk_sizes, nonce, key, 1, 0, <<>>))

RECURSIVE unshift_loop(_, _, _, _, _, _, _)
unshift_loop(data, chunk_sizes, nonce, key, i, cursor, original) ==
  IF i > Len(chunk_sizes) THEN original
  ELSE LET size == chunk_sizes[i]
           rotate_by == At(nonce, i - 1) % 8
           xor_val == At(key, i - 1)
           chunk == Vec([k \in 1..size |->
                       rotate_right(BXor(data[cursor + k], xor_val), rotate_by)])
       IN  unshift_loop(data, chunk_sizes, nonce, key, i + 1, cursor + size,
                        original \o chunk)

\* dynamic_unshift without the reversal of its input
dynamic_unshift_unreversed(data_in, nonce, password) ==
  LET key == blake3_hash(nonce \o password)
      chunk_sizes == get_chunk_sizes(Len(data_in), nonce, key)
  IN  unshift_loop(data_in, chunk_sizes, nonce, key, 1, 0, <<>>)

dynamic_unshift(data_in, nonce, password) ==
  LET data == Reverse(data_in)
      key == blake3_hash(nonce \o password)
      chunk_sizes == get_chunk_sizes(Len(data), nonce, key)
  IN  unshift_loop(data, chunk_sizes, nonce, key, 1, 0, <<>>)

\* gpu::dynamic_shift_gpu and gpu::dynamic_unshift_gpu (src/gpu.rs is not
\* among the sources): the same per-byte transform with the same chunking
\* derivation, byte-identical to the CPU path.
dynamic_shift_gpu(data, nonce, password) == dynamic_shift(data, nonce, password)

dynamic_unshift_gpu(data, nonce, password) == dynamic_unshift(data, nonce, password)

auto_dynamic_chunk_shift(data, nonce, password, cfg) ==
  IF cfg.device = "Cpu" THEN dynamic_shift(data, nonce, password)
  ELSE dynamic_shift_gpu(data, nonce, password)

auto_dynamic_chunk_unshift(data, nonce, password, cfg) ==
  IF cfg.device = "Cpu" THEN dynamic_unshift(data, nonce, password)
  ELSE dynamic_unshift_gpu(data, nonce, password)

--------------------------------------------------------------------------
(* Pipeline driver *)

\* slice.par_chunks(size): consecutive chunks of size bytes, the last one
\* shorter; no chunk for an empty slice.
par_chunks(buf, size) ==
  Vec([c \in 1..((Len(buf) + size - 1) \div size) |->
     SubSeq(buf, ((c - 1) * size) + 1,
            IF c * size < Len(buf) THEN c * size ELSE Len(buf))])

\* The whole of pwd whatever the pass
round_key_slice_whole(pwd, i) == pwd

\* let slice_end = min(i * 8, pwd.len()); &pwd[..slice_end]
round_key_slice(pwd, i) ==
  SubSeq(pwd, 1, IF i * 8 < Len(pwd) THEN i * 8 ELSE Len(pwd))

\* blake3::hash(&pwd[..slice_end]): the key of XOR pass i
round_key(pwd, i) == blake3_hash(round_key_slice(pwd, i))

\* One pass of the encrypt loop over the whole buffer: every chunk goes
\* through xor_encrypt with indices starting again at 0.
encrypt_round(round_data, nonce, key) ==
  Flatten([c \in DOMAIN par_chunks(round_data, dynamic_sizes(Len(round_data))) |->
             xor_encrypt(nonce, key,
                         par_chunks(round_data, dynamic_sizes(Len(round_data)))[c]).val])

decrypt_round(round_data, nonce, key) ==
  Flatten([c \in DOMAIN par_chunks(round_data, dynamic_sizes(Len(round_data))) |->
             xor_decrypt(nonce, key,
                         par_chunks(round_data, dynamic_sizes(Len(round_data)))[c]).val])

\* for i in 0..=config.rounds: the buffer after passes i, i + 1, ..., rounds
RECURSIVE encrypt_rounds(_, _, _, _, _)
encrypt_rounds(round_data, nonce, pwd, rounds, i) ==
  IF i > rounds THEN round_data
  ELSE encrypt_rounds(encrypt_round(round_data, nonce, round_key(pwd, i)),
                      nonce, pwd, rounds, i + 1)

\* for i in (0..=config.rounds).rev(): the buffer after passes i, i - 1, ..., 0
RECURSIVE decrypt_rounds(_, _, _, _)
decrypt_rounds(round_data, nonce, pwd, i) ==
  IF i < 0 THEN round_data
  ELSE decrypt_rounds(decrypt_round(round_data, nonce, round_key(pwd, i)),
                      nonce, pwd, i - 1)

\* A table after zeroize()
ZeroTable == [v \in 0..255 |-> 0]

\* A buffer left as it was: the call of zeroize left out
zeroize_skipped(buf) == buf

\* Zeroize::zeroize on a Vec<u8>: the bytes are overwritten with zeros
\* and the Vec is cleared, so it is the empty Vec afterwards
zeroize(buf) == <<>>

\* The Vecs one XOR pass collects, one per chunk of par_chunks
encrypt_round_chunks(round_data, nonce, key) ==
  Vec([c \in DOMAIN par_chunks(round_data, dynamic_sizes(Len(round_data))) |->
         xor_encrypt(nonce, key,
                     par_chunks(round_data, dynamic_sizes(Len(round_data)))[c]).val])

decrypt_round_chunks(round_data, nonce, key) ==
  Vec([c \in DOMAIN par_chunks(round_data, dynamic_sizes(Len(round_data))) |->
         xor_decrypt(nonce, key,
                     par_chunks(round_data, dynamic_sizes(Len(round_data)))[c]).val])

\* The buffers the loop of encrypt drops, none of them zeroized (lines
\* 1258-1281): for pass i, i + 1, ..., rounds the round_data the pass
\* was given (for pass 0 the copy of shifted_data of line 1258) and the
\* Vecs of its chunks, which flatten consumes; at the end crypted_chunks
\* of the last pass, which extend copies into crypted.
RECURSIVE encrypt_passes(_, _, _, _, _)
encrypt_passes(round_data, nonce, pwd, rounds, i) ==
  IF i > rounds THEN <<round_data>>
  ELSE <<round_data>>
       \o encrypt_round_chunks(round_data, nonce, round_key(pwd, i))
       \o encrypt_passes(encrypt_round(round_data, nonce, round_key(pwd, i)),
                         nonce, pwd, rounds, i + 1)

\* The buffers the loop of decrypt drops, none of them zeroized (lines
\* 1393-1417): for pass i, i - 1, ..., 0 the round_data the pass was
\* given (for the first one the copy of crypted of line 1393), its copy
\* round_data.to_vec() and the Vecs of its chunks; at the end decrypted
\* of the last pass, which extend copies into xor_decrypted.
RECURSIVE decrypt_passes(_, _, _, _)
decrypt_passes(round_data, nonce, pwd, i) ==
  IF i < 0 THEN <<round_data>>
  ELSE <<round_data, round_data>>
       \o decrypt_round_chunks(round_data, nonce, round_key(pwd, i))
       \o decrypt_passes(decrypt_round(round_data, nonce, round_key(pwd, i)),
                         nonce, pwd, i - 1)

\* The buffers of encrypt from the S-box to the last XOR pass (lines
\* 1238-1281), each as the stages left it: triangle_mix_columns rewrites
\* the buffer it is given, so mixed_data holds the bytes of
\* mixed_columns_data from line 1244 on.
encrypt_stages(data, nonce_bytes, pwd, cfg) ==
  LET s_block == generate_dynamic_sbox(nonce_bytes, pwd, cfg)
      s_bytes_tmp == s_bytes(data, s_block)
      mixed_data == mix_blocks(s_bytes_tmp, nonce_bytes, pwd)
      mixed_columns_data == triangle_mix_columns(mixed_data, cfg.gf_poly)
      shift_tmp == auto_dynamic_chunk_shift(mixed_columns_data, nonce_bytes, pwd, cfg)
      shifted_data == s_bytes(shift_tmp, s_block)
  IN  [s_bytes_tmp |-> s_bytes_tmp,
       mixed_data |-> mixed_columns_data,
       mixed_columns_data |-> mixed_columns_data,
       shift_tmp |-> shift_tmp,
       shifted_data |-> shifted_data,
       passes |-> encrypt_passes(shifted_data, nonce_bytes, pwd, cfg.rounds, 0),
       crypted |-> encrypt_rounds(shifted_data, nonce_bytes, pwd, cfg.rounds, 0)]

\* What encrypt leaves in memory once the XOR passes are done: password
\* (an array) and s_block were zeroized and hold zeros; the Vecs
\* mixed_data, mixed_columns_data and shifted_data were zeroized (lines
\* 1223, 1246, 1254, 1255, 1283); the results of s_bytes and of
\* auto_dynamic_chunk_shift were temporaries, dropped as they were, and
\* so were the buffers of the XOR passes.
encrypt_mem(st, data, pwd_left, mac_inputs) ==
  [password |-> Zeros(32), pwd |-> pwd_left, s_block |-> ZeroTable,
   plain |-> <<st.s_bytes_tmp, zeroize(st.mixed_data), zeroize(st.mixed_columns_data),
               st.shift_tmp, zeroize(st.shifted_data)>> \o mac_inputs,
   passes |-> st.passes]

\* encrypt from the MAC on (lines 1285-1307)
encrypt_finish(st, keys, mac_input, pwd, data, nonce_bytes, custom_salt, wrap_all_flag) ==
  IF mac_input.tag # "Ok"
  THEN \* the ? of line 1287: pwd.zeroize() of line 1290 is not reached
       [out |-> Err(mac_input.tag),
        mem |-> encrypt_mem(st, data, pwd, <<>>),
        keys |-> keys]
  ELSE [out |-> Ok((IF wrap_all_flag THEN nonce_bytes ELSE <<>>)
                   \o xor_encrypt(nonce_bytes, version_pwd, VERSION).val
                   \o st.crypted
                   \o Sha3_512(st.crypted \o blake3_hash(mac_input.val))
                   \o (IF ~wrap_all_flag THEN <<>>
                       ELSE IF custom_salt.some THEN custom_salt.val
                       ELSE nonce_bytes)),
        mem |-> encrypt_mem(st, data, zeroize(pwd), <<mac_input.val>>),
        keys |-> keys]

\* encrypt once the keys are derived (lines 1221-1307)
encrypt_keyed(password, derived, data, nonce_bytes, cfg, custom_salt, wrap_all_flag) ==
  IF derived.tag # "Ok"
  THEN \* the ? of line 1221: password.zeroize() of line 1223 is not reached
       [out |-> Err(derived.tag),
        mem |-> [password |-> password, pwd |-> <<>>, s_block |-> ZeroTable,
                 plain |-> <<>>, passes |-> <<>>],
        keys |-> <<>>]
  ELSE encrypt_finish(encrypt_stages(data, nonce_bytes, derived.val, cfg),
                      Vec([k \in 1..(cfg.rounds + 1) |-> round_key(derived.val, k - 1)]),
                      xor_encrypt(nonce_bytes, derived.val, data),
                      derived.val, data, nonce_bytes, custom_salt, wrap_all_flag)

\* encrypt.  The value is [out, mem, keys]: out is the Result, mem the
\* content, when encrypt returns, of the buffers it owned (a buffer that
\* was zeroized holds zeros, a Vec that was zeroized is empty; one dropped
\* without zeroize() still holds its bytes), keys the keys of the XOR passes in the order they were applied.
encrypt(password_str, data, nonce_bytes, cfg, custom_salt, wrap_all_flag) ==
  encrypt_keyed(derive_key(password_str, nonce_bytes),
                derive_password_key(derive_key(password_str, nonce_bytes),
                                    nonce_bytes, custom_salt),
                data, nonce_bytes, cfg, custom_salt, wrap_all_flag)

\* The result of a call that aborts (split_at past the end, usize
\* subtraction below zero): no value is returned to the caller.
Panic == [tag |-> "Panic", val |-> <<>>]

NoTrace == [split |-> "none", mac |-> "none"]

\* The memory record of decrypt: password_hash is never zeroized,
\* expected_password (a Vec) always is once it has been compared.  passes
\* are the buffers of the XOR passes, none before the loop has run.
DecMem(password_hash, pwd, inv_sbox, plain) ==
  [password_hash |-> password_hash, expected_password |-> <<>>,
   pwd |-> pwd, sbox |-> ZeroTable, inv_sbox |-> inv_sbox, plain |-> plain,
   passes |-> <<>>]

\* The buffers of decrypt from the XOR passes to the plaintext (lines
\* 1392-1440), each as the stages left it: inverse_triangle_mix_columns
\* rewrites the buffer it is given, so unshifted holds the bytes of
\* inversed_columns from line 1432 on.
decrypt_stages(crypted, nonce_byte, pwd, cfg) ==
  LET xor_decrypted == decrypt_rounds(crypted, nonce_byte, pwd, cfg.rounds)
      in_s_bytes_tmp == in_s_bytes(xor_decrypted, nonce_byte, pwd, cfg)
      unshifted == auto_dynamic_chunk_unshift(in_s_bytes_tmp, nonce_byte, pwd, cfg)
      inversed_columns == inverse_triangle_mix_columns(unshifted, cfg.gf_poly)
      unmixed == unmix_blocks(inversed_columns, nonce_byte, pwd)
  IN  [xor_decrypted |-> xor_decrypted,
       in_s_bytes_tmp |-> in_s_bytes_tmp,
       unshifted |-> inversed_columns,
       inversed_columns |-> inversed_columns,
       unmixed |-> unmixed,
       passes |-> decrypt_passes(crypted, nonce_byte, pwd, cfg.rounds),
       decrypted_data |-> in_s_bytes(unmixed, nonce_byte, pwd, cfg)]

\* What decrypt leaves of its buffers from xor_decrypted on:
\* xor_decrypted, unshifted, inversed_columns and unmixed were zeroized
\* (lines 1426, 1435, 1436, 1440); the result of the first in_s_bytes was
\* a temporary, dropped as it was.
decrypt_plain(st, crypted, last) ==
  <<zeroize(st.xor_decrypted), st.in_s_bytes_tmp, zeroize(st.unshifted),
    zeroize(st.inversed_columns), zeroize(st.unmixed)>> \o last

\* decrypt from the MAC on (lines 1442-1468).  inv_sbox is the table
\* in_s_bytes built and left behind.
decrypt_verify(st, mac_input, inv_sbox, crypted, mac_key, mac_kind, trace, password_hash, pwd) ==
  IF mac_input.tag # "Ok"
  THEN [out |-> Err(mac_input.tag),
        mem |-> [DecMem(password_hash, pwd, inv_sbox,
                        decrypt_plain(st, crypted, <<st.decrypted_data>>))
                   EXCEPT !.passes = st.passes],
        trace |-> trace]
  ELSE IF (IF mac_kind = "blake3"
           THEN blake3_keyed_hash(blake3_hash(crypted), mac_input.val)
           ELSE Sha3_512(crypted \o blake3_hash(mac_input.val))) # mac_key
  THEN \* decrypted_data.zeroize(); pwd.zeroize() stands in the 0x2
       \* branch only (line 1448)
       [out |-> Err("InvalidMac"),
        mem |-> [DecMem(password_hash,
                        IF mac_kind = "blake3" THEN zeroize(pwd) ELSE pwd, inv_sbox,
                        decrypt_plain(st, crypted,
                                      <<mac_input.val, zeroize(st.decrypted_data)>>))
                   EXCEPT !.passes = st.passes],
        trace |-> trace]
  ELSE [out |-> Ok(st.decrypted_data),
        mem |-> [DecMem(password_hash,
                        IF mac_kind = "blake3" THEN zeroize(pwd) ELSE pwd, inv_sbox,
                        decrypt_plain(st, crypted, <<mac_input.val>>))
                   EXCEPT !.passes = st.passes],
        trace |-> trace]

\* decrypt from the split of the MAC field on (lines 1377-1468).  split
\* names the arm of lines 1377-1390 that was taken, mac_kind the arm of
\* line 1442.
decrypt_split(split, mac_kind, tail_len, st_of, nonce_byte, password_hash, pwd, cfg, rest) ==
  IF Len(rest) < tail_len
  THEN \* rest.len() - 32, - 96 or - 64 goes below zero
       [out |-> Panic, mem |-> DecMem(password_hash, pwd, ZeroTable, <<>>),
        trace |-> [split |-> split, mac |-> "none"]]
  ELSE decrypt_verify(st_of,
                      xor_encrypt(nonce_byte, pwd, st_of.decrypted_data),
                      generate_inv_s_box(generate_dynamic_sbox(nonce_byte, pwd, cfg)),
                      SubSeq(rest, 1, Len(rest) - tail_len),
                      SubSeq(rest, Len(rest) - tail_len + 1,
                             Len(rest) - tail_len + (IF split = "mac32" THEN 32 ELSE 64)),
                      mac_kind, [split |-> split, mac |-> mac_kind],
                      password_hash, pwd)

\* The arm of lines 1377-1390
mac_split(version, version_2, wrapped) ==
  IF starts_with(version_2, VERSION_0x2) THEN "mac32"
  ELSE IF starts_with(version, VERSION) /\ wrapped THEN "mac64+suffix32"
  ELSE "mac64"

\* The number of bytes the arm takes from the end of rest
mac_tail_len(split) ==
  CASE split = "mac32" -> 32
    [] split = "mac64+suffix32" -> 96
    [] OTHER -> 64

\* The arm of line 1442
mac_construction(version) ==
  IF starts_with(version, VERSION_0x2) THEN "blake3" ELSE "sha3"

\* decrypt from the version check on (lines 1364-1468).  rest is the blob
\* after the version ciphertext, wrapped the flag of lines 1350-1362.
decrypt_checked(version, version_2, nonce_byte, password_hash, pwd, cfg, rest, wrapped) ==
  IF ~starts_with(version, VERSION_PREFIX) /\ ~starts_with(version_2, VERSION_PREFIX)
  THEN [out |-> Err("InvalidAlgorithm"),
        mem |-> DecMem(password_hash, zeroize(pwd), ZeroTable, <<>>),
        trace |-> NoTrace]
  ELSE decrypt_split(mac_split(version, version_2, wrapped),
                     mac_construction(version),
                     mac_tail_len(mac_split(version, version_2, wrapped)),
                     decrypt_stages(
                       SubSeq(rest, 1,
                              Len(rest) - mac_tail_len(mac_split(version, version_2, wrapped))),
                       nonce_byte, pwd, cfg),
                     nonce_byte, password_hash, pwd, cfg, rest)

decrypt_body(nonce_byte, password_hash, pwd, cfg, encrypted_version, rest, wrapped) ==
  decrypt_checked(xor_decrypt(nonce_byte, version_pwd, encrypted_version).val,
                  xor_decrypt(nonce_byte, pwd, encrypted_version).val,
                  nonce_byte, password_hash, pwd, cfg, rest, wrapped)

\* decrypt from the key check on (lines 1336-1468); offset is the number
\* of bytes in front of the version ciphertext
decrypt_derived(password_hash, expected, derived, data, offset, nonce_byte, cfg) ==
  IF expected.tag # "Ok" \/ derived.tag # "Ok"
  THEN [out |-> Err("Argon2Failed"),
        mem |-> [DecMem(password_hash, <<>>, ZeroTable, <<>>)
                   EXCEPT !.expected_password = expected.val],
        trace |-> NoTrace]
  ELSE IF ~verify_keys_constant_time(derived.val, expected.val)
  THEN [out |-> Err("InvalidMac"),
        mem |-> DecMem(password_hash, zeroize(derived.val), ZeroTable, <<>>),
        trace |-> NoTrace]
  ELSE IF Len(data) < 32 + Len(VERSION)
  THEN \* "Data is too short": pwd is left as it is
       [out |-> Err("InvalidMac"),
        mem |-> DecMem(password_hash, derived.val, ZeroTable, <<>>),
        trace |-> NoTrace]
  ELSE decrypt_body(nonce_byte, password_hash, derived.val, cfg,
                    SubSeq(data, offset + 1, offset + Len(VERSION)),
                    SubSeq(data, offset + Len(VERSION) + 1, Len(data)),
                    offset = 32)

\* decrypt, after the nonce and the salt are fixed (lines 1329-1468)
decrypt_keyed(password_str, data, nonce_opt, nonce_byte, cfg, custom_salt, wrap_all_flag) ==
  decrypt_derived(derive_key(password_str, nonce_byte),
                  derive_password_key(derive_key(password_str, nonce_byte),
                                      nonce_byte, custom_salt),
                  derive_password_key(derive_key(password_str, nonce_byte),
                                      nonce_byte, custom_salt),
                  data,
                  IF nonce_opt.some /\ ~wrap_all_flag THEN 0 ELSE 32,
                  nonce_byte, cfg)

\* decrypt.  The value is [out, mem, trace]: trace names the split of the
\* MAC field and the MAC construction the call used.
decrypt(password_str, data, nonce_opt, cfg, custom_salt, wrap_all_flag) ==
  IF ~nonce_opt.some /\ Len(data) < 32
  THEN \* data.split_at(data.len() - 32): the subtraction goes below zero
       [out |-> Panic,
        mem |-> [password_hash |-> <<>>, expected_password |-> <<>>, pwd |-> <<>>,
                 sbox |-> ZeroTable, inv_sbox |-> ZeroTable, plain |-> <<>>,
                 passes |-> <<>>],
        trace |-> NoTrace]
  ELSE decrypt_keyed(password_str, data, nonce_opt,
                     IF nonce_opt.some THEN nonce_opt.val ELSE SubSeq(data, 1, 32),
                     cfg,
                     IF nonce_opt.some THEN custom_salt
                     ELSE Some(SubSeq(data, Len(data) - 31, Len(data))),
                     wrap_all_flag)

--------------------------------------------------------------------------
(* The inputs the calls are made with *)

\* Short payloads have 0..MaxLen bytes
MaxLen == 4

\* The long payload: more than one chunk in the shift and in the XOR passes
LongLen == 30

\* config.rounds is 1 or MaxRounds (Config::default().rounds where the
\* default config is used)
MaxRounds == 5

\* "pw" and "px": two passwords that differ in a single character
Passwords == {<<112, 119>>, <<112, 120>>}

Nonce1 == Vec([i \in 1..32 |-> ((i * 37) + 11) % 256])

Nonce2 == Vec([i \in 1..32 |-> ((i * i * 5) + (i * 3) + 200) % 256])

\* Nonce1 with one bit changed in byte 26: the two agree on the first 16
\* bytes, the only ones the 16-byte version tag is combined with
Nonce3 == [Nonce1 EXCEPT ![26] = BXor(@, 128)]

Nonces == {Nonce1, Nonce2, Nonce3}

Salt1 == Vec([i \in 1..32 |-> ((i * 91) + 5) % 256])

Salts == {None, Some(Salt1)}

\* The payload of len bytes that starts at byte value v
Payload(len, v) == Vec([i \in 1..len |-> (v + (53 * (i - 1))) % 256])

Payloads ==
  {Payload(len, 7) : len \in (0..MaxLen) \cup {LongLen}} \cup {Payload(1, 35)}

GfPolys == {AES, Custom4d, Custom1a}

SboxTypes == {"PasswordBased", "NonceBased", "PasswordAndNonceBased"}

Configs ==
  [rounds : {1, MaxRounds}, device : {"Cpu"}, sbox : SboxTypes,
   thread_num : {4}, gf_poly : GfPolys]

\* Config::default() with set_thread(4)
DefaultConfig ==
  [rounds |-> DefaultRounds, device |-> "Cpu", sbox |-> "PasswordAndNonceBased",
   thread_num |-> 4, gf_poly |-> AES]

--------------------------------------------------------------------------
(* State *)

VARIABLES
  pc,           \* "start", "encrypted", "failed", "tampered" or "done"
  password,     \* encrypt's arguments
  data,
  nonce,
  config,
  custom_salt,
  wrap_all,
  enc,          \* what encrypt returned: [out, mem, keys]
  blob,         \* the bytes handed to decrypt
  tamper,       \* what was done to the blob between the two calls
  d,            \* decrypt's arguments
  dec           \* what decrypt returned: [out, mem, trace]

vars == <<pc, password, data, nonce, config, custom_salt, wrap_all, enc, blob,
          tamper, d, dec>>

NoCall == [out |-> Err("NotCalled")]

NoArgs == [password |-> <<>>]

Untouched == [kind |-> "none", pos |-> 0, bit |-> 0, key |-> "none"]

Init ==
  /\ pc = "start"
  /\ password = <<112, 119>>
  /\ data \in Payloads
  /\ nonce = Nonce1
  /\ config \in Configs
  /\ custom_salt \in Salts
  /\ wrap_all \in BOOLEAN
  /\ enc = NoCall
  /\ blob = <<>>
  /\ tamper = Untouched
  /\ d = NoArgs
  /\ dec = NoCall

\* AtomCrypteBuilder::encrypt with every field set: the call of encrypt
Encrypt ==
  /\ pc = "start"
  /\ enc' = encrypt(password, data, nonce, config, custom_salt, wrap_all)
  /\ blob' = enc'.out.val
  /\ pc' = IF enc'.out.tag = "Ok" THEN "encrypted" ELSE "failed"
  /\ UNCHANGED <<password, data, nonce, config, custom_salt, wrap_all, tamper, d, dec>>

\* The arguments encrypt was called with, handed to decrypt
SameArgs ==
  [password |-> password, nonce |-> Some(nonce), config |-> config,
   custom_salt |-> custom_salt, wrap_all |-> wrap_all]

\* decrypt with the password and the config only
SelfContained == [SameArgs EXCEPT !.nonce = None, !.custom_salt = None]

\* The number of fields in which two argument records differ
Differences(a, b) ==
  Cardinality({f \in {"password", "nonce", "custom_salt", "wrap_all"} : a[f] # b[f]})
  + Cardinality({f \in {"rounds", "sbox", "gf_poly"} : a.config[f] # b.config[f]})

\* The calls of decrypt made on an untouched blob: with the arguments of
\* encrypt; with one of password, nonce, wrap_all, rounds, sbox and gf_poly
\* changed; and, on a wrap_all blob, with neither nonce nor salt.
DecryptArgs ==
  {a \in [password : Passwords, nonce : {Some(n) : n \in Nonces},
          config : Configs, custom_salt : {custom_salt}, wrap_all : BOOLEAN] :
     Differences(a, SameArgs) <= 1}
  \cup (IF wrap_all THEN {SelfContained} ELSE {})

\* AtomCrypteBuilder::decrypt: the call of decrypt on the blob
Decrypt ==
  /\ pc = "encrypted"
  /\ \E a \in DecryptArgs :
       /\ d' = a
       /\ dec' = decrypt(a.password, blob, a.nonce, a.config, a.custom_salt, a.wrap_all)
  /\ pc' = "done"
  /\ UNCHANGED <<password, data, nonce, config, custom_salt, wrap_all, enc, blob, tamper>>

Next == Encrypt \/ Decrypt

Spec == Init /\ [][Next]_vars

--------------------------------------------------------------------------
(* Blobs that reach decrypt changed: one bit flipped, cut short, in the    *)
(* 0x2 format, or framed around an empty body.                             *)

\* The shortest payload whose 0x2 blob holds 64 bytes after its tag
LegacyLen == 33

TamperInit ==
  /\ pc = "start"
  /\ password = <<112, 119>>
  /\ nonce = Nonce1
  /\ config = DefaultConfig
  /\ \E w \in {<<FALSE, None>>, <<TRUE, Some(Salt1)>>} :
       wrap_all = w[1] /\ custom_salt = w[2]
  /\ data \in {<<>>, Payload(2, 7)} \cup (IF wrap_all THEN {} ELSE {Payload(LegacyLen, 7)})
  /\ enc = NoCall
  /\ blob = <<>>
  /\ tamper = Untouched
  /\ d = NoArgs
  /\ dec = NoCall

\* One bit of one byte of the blob is flipped
FlipBit ==
  /\ pc = "encrypted"
  /\ \E pos \in 1..Len(blob), bit \in 0..7 :
       /\ blob' = [blob EXCEPT ![pos] = BXor(@, Pow2(bit))]
       /\ tamper' = [kind |-> "flip", pos |-> pos, bit |-> bit, key |-> "none"]
  /\ pc' = "tampered"
  /\ UNCHANGED <<password, data, nonce, config, custom_salt, wrap_all, enc, d, dec>>

\* The blob is cut to its first n bytes
Truncate ==
  /\ pc = "encrypted"
  /\ \E n \in 0..(Len(blob) - 1) :
       /\ blob' = SubSeq(blob, 1, n)
       /\ tamper' = [kind |-> "truncate", pos |-> n, bit |-> 0, key |-> "none"]
  /\ pc' = "tampered"
  /\ UNCHANGED <<password, data, nonce, config, custom_salt, wrap_all, enc, d, dec>>

\* The blob of the 0x2 format for the same body: the tag atom-version:0x2
\* under the key named by key, the body, and the 32-byte Blake3 keyed MAC;
\* no prefix and no suffix.
LegacyBlob ==
  /\ pc = "encrypted"
  /\ ~wrap_all
  /\ \E key \in {"k_version", "k_pw"} :
       LET pwd == derive_password_key(derive_key(password, nonce), nonce,
                                      custom_salt).val
           crypted == SubSeq(blob, Len(VERSION) + 1, Len(VERSION) + Len(data))
           tag_key == IF key = "k_version" THEN version_pwd ELSE pwd
       IN  /\ blob' = xor_encrypt(nonce, tag_key, VERSION_0x2).val
                      \o crypted
                      \o blake3_keyed_hash(blake3_hash(crypted),
                                           xor_encrypt(nonce, pwd, data).val)
           /\ tamper' = [kind |-> "legacy", pos |-> 0, bit |-> 0, key |-> key]
  /\ pc' = "tampered"
  /\ UNCHANGED <<password, data, nonce, config, custom_salt, wrap_all, enc, d, dec>>

\* A framed blob whose body is empty, for the arguments encrypt rejected the
\* empty payload with: in the 0x3 layout (the nonce in front with wrap_all,
\* the tag under k_version, 64 bytes of MAC, the salt or else the nonce
\* behind with wrap_all), or in the 0x2 layout (the tag under the key named
\* by key, 32 bytes of MAC).
EmptyBody ==
  /\ pc = "failed"
  /\ \E key \in {"none"} \cup (IF wrap_all THEN {} ELSE {"k_version", "k_pw"}) :
       LET pwd == derive_password_key(derive_key(password, nonce), nonce,
                                      custom_salt).val
           tag_key == IF key = "k_pw" THEN pwd ELSE version_pwd
           prefix == IF wrap_all THEN nonce ELSE <<>>
           suffix == IF wrap_all THEN unwrap_or(custom_salt, nonce) ELSE <<>>
       IN  /\ blob' = IF key = "none"
                       THEN prefix \o xor_encrypt(nonce, tag_key, VERSION).val
                            \o Sha3_512(blake3_hash(<<>>)) \o suffix
                       ELSE xor_encrypt(nonce, tag_key, VERSION_0x2).val
                            \o blake3_keyed_hash(blake3_hash(<<>>), <<>>)
           /\ tamper' = [kind |-> "empty", pos |-> 0, bit |-> 0, key |-> key]
  /\ pc' = "tampered"
  /\ UNCHANGED <<password, data, nonce, config, custom_salt, wrap_all, enc, d, dec>>

\* decrypt on the changed blob, with the arguments of encrypt or, for a
\* wrap_all blob, with the password and the config only
DecryptTampered ==
  /\ pc = "tampered"
  /\ \E a \in {SameArgs} \cup (IF wrap_all THEN {SelfContained} ELSE {}) :
       /\ d' = a
       /\ dec' = decrypt(a.password, blob, a.nonce, a.config, a.custom_salt, a.wrap_all)
  /\ pc' = "done"
  /\ UNCHANGED <<password, data, nonce, config, custom_salt, wrap_all, enc, blob, tamper>>

NextTamper == Encrypt \/ FlipBit \/ Truncate \/ LegacyBlob \/ EmptyBody \/ DecryptTampered

SpecTamper == TamperInit /\ [][NextTamper]_vars

--------------------------------------------------------------------------
(* Properties *)

\* decrypt was called with exactly the arguments of encrypt
SameCall == pc = "done" /\ d = SameArgs

\* decrypt was called with the arguments of encrypt except for field f
OnlyDiffers(f) == pc = "done" /\ d # SameArgs /\ [d EXCEPT ![f] = SameArgs[f]] = SameArgs

\* 3, 4 and 5, the coefficients the column mixer divides by, have inverses
\* in the table of the polynomial
MixerInvertible(poly) ==
  \A a \in {3, 4, 5} : multiply(poly, a, inv_table(poly, a)) = 1

\* The key k_pw of the encrypt call
EncryptKey ==
  derive_password_key(derive_key(password, nonce), nonce, custom_salt).val

Rejected == {"InvalidMac", "InvalidAlgorithm"}

\* C1, as stated: encrypt succeeds on every payload, the empty one
\* included, under every config, Custom(u8) polynomials included, and
\* decrypt with the arguments of encrypt returns Ok with the payload.
C1_RoundTripAsStated ==
  /\ pc # "failed"
  /\ SameCall => dec.out = Ok(data)

\* C1, amended: encrypt fails with InvalidXor exactly on the empty
\* payload; for a non-empty payload and a gf_poly under which 3, 4 and 5
\* are invertible (AES, Custom(0x4d)), decrypt with the same password,
\* nonce, salt, config and wrap_all returns Ok with the payload.
C1_RoundTrip ==
  /\ pc = "failed" => data = <<>> /\ enc.out = Err("InvalidXor")
  /\ pc \in {"encrypted", "done"} => data # <<>> /\ enc.out.tag = "Ok"
  /\ SameCall /\ MixerInvertible(config.gf_poly) => dec.out = Ok(data)

\* A long wrap_all payload with a salt, Custom(0x4d) and MaxRounds rounds
\* came back from decrypt.
C1_Witness ==
  /\ SameCall
  /\ Len(data) = LongLen /\ wrap_all /\ custom_salt.some
  /\ config.gf_poly = Custom4d /\ config.rounds = MaxRounds
  /\ dec.out = Ok(data)

\* C2: after a single bit of the blob is flipped, at any position, decrypt
\* with the arguments of encrypt returns InvalidMac or InvalidAlgorithm.
C2_Authentication ==
  pc = "done" /\ tamper.kind = "flip" /\ d = SameArgs => dec.out.tag \in Rejected

\* A blob without prefix, one bit flipped in the last four bytes of its
\* encrypted version tag, was accepted: decrypt returned Ok.
C2_Forged ==
  /\ pc = "done" /\ tamper.kind = "flip" /\ d = SameArgs
  /\ ~wrap_all /\ tamper.pos \in 13..16
  /\ blob # enc.out.val
  /\ dec.out = Ok(data)

\* C3, as stated: for every non-empty payload encrypted with wrap_all,
\* with or without a salt, decrypt with the password and the config only
\* returns the payload.
C3_SelfContainedAsStated ==
  pc = "done" /\ wrap_all /\ d = SelfContained => dec.out = Ok(data)

\* C3, amended: under a gf_poly for which 3, 4 and 5 are invertible,
\* decrypt with the password and the config only returns the payload of a
\* wrap_all blob; the key it derives, from the first 32 bytes of the blob
\* as nonce and the last 32 as salt, is the key of encrypt.
C3_SelfContained ==
  pc = "done" /\ wrap_all /\ d = SelfContained =>
    /\ dec.mem.pwd =
         derive_password_key(derive_key(password, SubSeq(blob, 1, 32)),
                             SubSeq(blob, 1, 32),
                             Some(SubSeq(blob, Len(blob) - 31, Len(blob)))).val
    /\ dec.mem.pwd = EncryptKey
    /\ MixerInvertible(config.gf_poly) => dec.out = Ok(data)

\* A wrap_all blob made without a salt was decrypted with the password
\* and the config only: the suffix was the echo of the nonce.
C3_Witness ==
  /\ pc = "done" /\ wrap_all /\ d = SelfContained
  /\ custom_salt = None
  /\ SubSeq(blob, Len(blob) - 31, Len(blob)) = nonce
  /\ Len(data) >= 3
  /\ dec.out = Ok(data)

\* C4: the blob of a successful encrypt is the nonce (wrap_all only), the
\* 16 bytes of the encrypted version tag, a body as long as the payload,
\* the 64-byte MAC and, with wrap_all, a 32-byte suffix that is the salt
\* when there is one and the nonce otherwise: |data| + 80 bytes without
\* wrap_all, |data| + 144 with it.
C4_BlobLayout ==
  enc.out.tag = "Ok" =>
    LET out == enc.out.val
        off == IF wrap_all THEN 32 ELSE 0
        body == SubSeq(out, off + 17, off + 16 + Len(data))
    IN  /\ Len(out) = Len(data) + (IF wrap_all THEN 144 ELSE 80)
        /\ wrap_all => SubSeq(out, 1, 32) = nonce
        /\ SubSeq(out, off + 1, off + 16) = xor_encrypt(nonce, version_pwd, VERSION).val
        /\ SubSeq(out, off + 17 + Len(data), off + 80 + Len(data))
             = Sha3_512(body \o blake3_hash(xor_encrypt(nonce, EncryptKey, data).val))
        /\ wrap_all => SubSeq(out, off + 81 + Len(data), Len(out))
                         = (IF custom_salt.some THEN custom_salt.val ELSE nonce)

\* encrypt returned a wrap_all blob for a long payload and a salt.
C4_Witness ==
  /\ pc = "encrypted" /\ wrap_all /\ custom_salt.some /\ Len(data) = LongLen
  /\ Len(blob) = LongLen + 144

\* C5: decrypt with a config that differs from the config of encrypt in
\* rounds, in sbox or in gf_poly, and the same other arguments, returns
\* InvalidMac, whatever the length of the payload.
C5_ConfigCoupling ==
  OnlyDiffers("config") => dec.out.tag = "InvalidMac"

\* A payload of one or two bytes was decrypted under another gf_poly.
C5_Accepted ==
  /\ OnlyDiffers("config")
  /\ d.config.gf_poly # config.gf_poly
  /\ Len(data) \in {1, 2}
  /\ dec.out = Ok(data)

\* Every buffer of the memory record holds zeros only (a zeroized Vec,
\* which is empty, holds nothing else)
EncryptWiped ==
  /\ IsZero(enc.mem.password) /\ IsZero(enc.mem.pwd)
  /\ enc.mem.s_block = ZeroTable
  /\ \A i \in 1..Len(enc.mem.plain) : IsZero(enc.mem.plain[i])
  /\ \A i \in 1..Len(enc.mem.passes) : IsZero(enc.mem.passes[i])

DecryptWiped ==
  /\ IsZero(dec.mem.password_hash) /\ IsZero(dec.mem.expected_password)
  /\ IsZero(dec.mem.pwd)
  /\ dec.mem.sbox = ZeroTable /\ dec.mem.inv_sbox = ZeroTable
  /\ \A i \in 1..Len(dec.mem.plain) : IsZero(dec.mem.plain[i])
  /\ \A i \in 1..Len(dec.mem.passes) : IsZero(dec.mem.passes[i])

\* C6: when encrypt or decrypt returns, Ok or Err, k0, k_pw, the S-box and
\* the inverse S-box and every buffer that held plaintext-derived bytes
\* hold zeros.
C6_Zeroized ==
  /\ pc \in {"encrypted", "failed", "done"} => EncryptWiped
  /\ pc = "done" => DecryptWiped

\* decrypt returned Ok and left k0 and k_pw in memory.
C6_KeysLeft ==
  /\ SameCall /\ dec.out = Ok(data)
  /\ ~IsZero(dec.mem.password_hash)
  /\ dec.mem.pwd = EncryptKey /\ ~IsZero(dec.mem.pwd)

\* The shortest blob the call of decrypt can frame: 16 + 64 bytes, and 32
\* + 32 more when the nonce prefix and the suffix are expected
MinFrame == IF d.nonce.some /\ ~d.wrap_all THEN 80 ELSE 144

\* C7: decrypt on a blob shorter than its framing returns InvalidMac or
\* InvalidAlgorithm; it does not abort.
C7_TruncatedRejected ==
  pc = "done" /\ tamper.kind = "truncate" /\ Len(blob) < MinFrame =>
    dec.out.tag \in Rejected

\* decrypt aborted on a blob of at least 48 bytes.
C7_Aborted ==
  /\ pc = "done" /\ tamper.kind = "truncate"
  /\ Len(blob) >= 48 /\ Len(blob) < MinFrame
  /\ dec.out = Panic

\* C8: the keys of the rounds + 1 XOR passes of one call are pairwise
\* different.
C8_DistinctRoundKeys ==
  pc \in {"encrypted", "done"} =>
    \A i, j \in 1..Len(enc.keys) : i # j => enc.keys[i] # enc.keys[j]

\* With MaxRounds rounds the last two passes used the same key.
C8_RepeatedKey ==
  /\ pc = "encrypted" /\ config.rounds = MaxRounds
  /\ Len(enc.keys) = MaxRounds + 1
  /\ enc.keys[MaxRounds] = enc.keys[MaxRounds + 1]

\* C9: a call of decrypt that passes the version check splits a 32-byte
\* MAC exactly when it verifies with the Blake3 keyed hash, and a 64-byte
\* MAC exactly when it verifies with SHA3-512.
C9_MacConsistent ==
  pc = "done" /\ dec.trace.mac # "none" =>
    (dec.trace.split = "mac32" <=> dec.trace.mac = "blake3")

\* A 0x2 blob, its tag under k_pw, was split for the 32-byte MAC and
\* verified with SHA3-512: InvalidMac, although its MAC is the right one.
C9_Mismatch ==
  /\ pc = "done" /\ tamper.kind = "legacy" /\ tamper.key = "k_pw"
  /\ dec.trace = [split |-> "mac32", mac |-> "sha3"]
  /\ dec.out.tag = "InvalidMac"

\* C10: decrypt with a password that differs in one character, and the
\* same other arguments, returns InvalidMac.
C10_PasswordSensitivity ==
  OnlyDiffers("password") => dec.out.tag = "InvalidMac"

\* decrypt returned Ok under the other password.
C10_Accepted ==
  /\ OnlyDiffers("password")
  /\ dec.out.tag = "Ok"

\* C11: for a blob encrypted without wrap_all, decrypt with the password,
\* salt and config of encrypt but another nonce returns InvalidAlgorithm or
\* InvalidMac and never Ok, also when the other nonce agrees with the nonce
\* of encrypt on the first 16 bytes.
C11_NonceSensitivity ==
  OnlyDiffers("nonce") /\ ~wrap_all => dec.out.tag \in Rejected

\* decrypt with a nonce that differs from the nonce of encrypt in byte 26
\* passed the version check and the MAC check and returned Ok with a byte
\* that is not the payload.
C11_Accepted ==
  /\ OnlyDiffers("nonce") /\ ~wrap_all
  /\ d.nonce = Some(Nonce3) /\ nonce # Nonce3
  /\ SubSeq(Nonce3, 1, 16) = SubSeq(nonce, 1, 16)
  /\ dec.out.tag = "Ok" /\ dec.out.val # data

\* C12: the empty payload is handled the same way on both sides: encrypt
\* of the empty payload returns the error InvalidXor and no blob, and decrypt
\* of a framed blob whose body is empty never returns Ok; in the 0x3 layout
\* it returns the same error InvalidXor.
C12_EmptyPayload ==
  /\ data = <<>> /\ pc # "start" => enc.out = Err("InvalidXor") /\ pc # "encrypted"
  /\ pc = "done" /\ tamper.kind = "empty" =>
       /\ dec.out.tag # "Ok"
       /\ tamper.key = "none" => dec.out = Err("InvalidXor")

\* encrypt rejected the empty payload, and decrypt rejected with InvalidXor
\* the wrap_all frame with an empty body, read with the password and the
\* config only.
C12_Witness ==
  /\ pc = "done" /\ data = <<>> /\ enc.out = Err("InvalidXor")
  /\ tamper.kind = "empty" /\ tamper.key = "none" /\ wrap_all /\ d = SelfContained
  /\ Len(blob) = 32 + Len(VERSION) + 64 + 32
  /\ dec.out = Err("InvalidXor")

\* C13: whenever decrypt recovered the plaintext and the MAC comparison
\* fails, under the 0x2 or the 0x3 construction, the recovered buffer has
\* been zeroized (it is the empty Vec) when InvalidMac is returned, and no
\* recovered byte is returned.
C13_WipedOnMacFailure ==
  pc = "done" /\ dec.out.tag = "InvalidMac" /\ dec.trace.mac \in {"blake3", "sha3"} =>
    /\ dec.out.val = <<>>
    /\ Len(dec.mem.plain) = 7
    /\ dec.mem.plain[7] = <<>>

\* The Blake3 keyed MAC of a 0x2 blob did not verify: decrypt returned
\* InvalidMac, the MAC input it computed from the recovered bytes is there,
\* and the recovered buffer is empty.
C13_Witness ==
  /\ pc = "done" /\ tamper.kind = "legacy" /\ dec.trace.mac = "blake3"
  /\ dec.out = Err("InvalidMac")
  /\ Len(dec.mem.plain[6]) >= 1 /\ ~IsZero(dec.mem.plain[6])
  /\ dec.mem.plain[7] = <<>>

--------------------------------------------------------------------------
(* The worker pools: a call of encrypt, then a call of decrypt, carried   *)
(* out parallel iterator by parallel iterator.  enc holds the encrypt     *)
(* call and dec the decrypt call: at is the place of the call, kernel the *)
(* closure of the iterator in progress, src the buffer it reads, cur the  *)
(* buffer it writes, workers the size of the pool it runs on, jobs the    *)
(* pieces the pool has cut it into, config the Config the call was given  *)
(* (the variable config holds the Config of the call in progress).  A job *)
(* of an XOR pass holds, for the chunk k it is at, the parallel iterator  *)
(* that xor_encrypt or xor_decrypt runs over the bytes of the chunk:      *)
(* inner are its jobs and out the buffer it writes.  blob is the blob     *)
(* encrypt returned, which decrypt is given.  d is the system: its number *)
(* of CPUs and the most threads it starts for one pool.                   *)

\* The most threads the system starts for one pool
MaxThreads == 3

\* The number of CPUs of the system of the worker pools
PoolCpus == 2

\* The most jobs one parallel iterator is cut into
MaxJobs == 3

\* The most jobs the iterator of xor_encrypt or xor_decrypt inside a job of
\* an XOR pass is cut into
MaxXorJobs == 2

\* The length of the payload that an XOR pass cuts into two chunks
PoolLen == 16

\* ThreadPoolBuilder::num_threads(n) on a system with cpus CPUs: n workers,
\* and for n = 0 the default of the pool, one per CPU
num_threads(n, cpus) == IF n = 0 THEN cpus ELSE n

\* .build().map_err(|e| Errors::ThreadPool(e.to_string())) on the system
\* sys: the size of the pool, or the error when the system does not start
\* the threads (more than sys.limit of them, or sys.fails: a thread could
\* not be spawned this time)
build(n, sys) ==
  IF sys.fails \/ num_threads(n, sys.cpus) > sys.limit THEN Err("ThreadPool")
  ELSE Ok(num_threads(n, sys.cpus))

\* A chunk size that gives every configured thread one chunk
pass_chunk_size_per_thread(len, thread_num) ==
  IF thread_num = 0 THEN len ELSE (len + thread_num - 1) \div thread_num

\* The chunk size of an XOR pass, dynamic_sizes(round_data.len()) as usize:
\* thread_num is not read
pass_chunk_size(len, thread_num) == dynamic_sizes(len)

\* A Vec of n bytes none of which is written yet
Slots(n) == Vec([k \in 1..n |-> -1])

\* The jobs of a parallel iterator over n items before any split: one job
\* with all the items, none when there is no item
Jobs(n) ==
  IF n = 0 THEN <<>>
  ELSE <<[lo |-> 1, hi |-> n, st |-> "pending", k |-> 0, inner |-> <<>>, out |-> <<>>]>>

\* A call with the Config cfg that has not run any parallel iterator yet
NewCall(cfg) ==
  [config |-> cfg, at |-> "start", kernel |-> "none", workers |-> 0, jobs |-> <<>>,
   src |-> <<>>, cur |-> <<>>, key |-> <<>>, table |-> ZeroTable,
   pwd |-> EncryptKey, buf |-> <<>>, sizes |-> <<>>, i |-> 0, cursor |-> 0,
   acc |-> <<>>, version |-> <<>>, version_2 |-> <<>>, crypted |-> <<>>,
   mac_key |-> <<>>, reordered |-> FALSE, stolen |-> FALSE, out |-> Err("NotCalled")]

\* A parallel iterator over n items is handed to a pool of workers threads
Pass(c, at, kernel, workers, key, src, cur, n) ==
  [c EXCEPT !.at = at, !.kernel = kernel, !.workers = workers, !.key = key,
            !.src = src, !.cur = cur, !.jobs = Jobs(n)]

\* The call returns out
Return(c, out) ==
  [c EXCEPT !.at = "returned", !.kernel = "none", !.workers = 0,
            !.jobs = <<>>, !.out = out]

\* ThreadPoolBuilder::new().num_threads(config.thread_num).build()
\* .map_err(..)?  followed by pool.install(|| ..): the ? returns the error
Installed(sys, c, at, kernel, key, src, cur, n) ==
  IF build(c.config.thread_num, sys).tag # "Ok"
  THEN Return(c, build(c.config.thread_num, sys))
  ELSE Pass(c, at, kernel, build(c.config.thread_num, sys).val, key, src, cur, n)

\* The chunks of an XOR pass
pass_chunks(c) ==
  par_chunks(c.src, pass_chunk_size(Len(c.src), c.config.thread_num))

\* One XOR pass: round_data.par_chunks(..).map(..) with the key of turn
\* c.i, on rayon's global pool, which has the default size
xor_pass(sys, c, round_data, kernel) ==
  Pass(c, "par_chunks", kernel, num_threads(0, sys.cpus), round_key(c.pwd, c.i), round_data,
       Vec([k \in 1..Len(par_chunks(round_data,
                           pass_chunk_size(Len(round_data), c.config.thread_num))) |-> <<>>]),
       Len(par_chunks(round_data, pass_chunk_size(Len(round_data), c.config.thread_num))))

\* cur with the slots lo..hi written from vals
Written(cur, vals, lo, hi) ==
  Vec([k \in 1..Len(cur) |-> IF lo <= k /\ k <= hi THEN vals[k] ELSE cur[k]])

\* A worker runs the closure of the iterator on the items lo..hi of a job
\* and the results go to the slots of these items.  An item of the column
\* mixers is a group of three bytes of the buffer itself, an item of
\* for_each a byte of the chunk itself.
RunJob(c, lo, hi) ==
  CASE c.kernel = "xor_encrypt" ->
         Written(c.cur, xor_encrypt_map(nonce, c.key, c.src), lo, hi)
    [] c.kernel = "xor_decrypt" ->
         Written(c.cur, xor_decrypt_map(nonce, c.key, c.src), lo, hi)
    [] c.kernel = "sbox" ->
         Written(c.cur, s_bytes(c.src, c.table), lo, hi)
    [] c.kernel = "mix_blocks" ->
         Written(c.cur, mix_blocks(c.src, nonce, c.pwd), lo, hi)
    [] c.kernel = "unmix_blocks" ->
         Written(c.cur, unmix_blocks(c.src, nonce, c.pwd), lo, hi)
    [] c.kernel = "triangle_mix_columns" ->
         Written(c.cur, triangle_mix_columns(c.cur, c.config.gf_poly), (3 * lo) - 2, 3 * hi)
    [] c.kernel = "inverse_triangle_mix_columns" ->
         Written(c.cur, inverse_triangle_mix_columns(c.cur, c.config.gf_poly), (3 * lo) - 2, 3 * hi)
    [] c.kernel = "shift" ->
         Written(c.cur,
                 [k \in 1..Len(c.cur) |->
                    BXor(rotate_left(c.cur[k], At(nonce, c.i) % 8), At(c.key, c.i))],
                 lo, hi)
    [] c.kernel = "unshift" ->
         Written(c.cur,
                 [k \in 1..Len(c.cur) |->
                    rotate_right(BXor(c.cur[k], At(c.key, c.i)), At(nonce, c.i) % 8)],
                 lo, hi)
    [] c.kernel = "par_extend" ->
         Written(c.cur, c.src, lo, hi)

\* A worker runs the closure of xor_encrypt or xor_decrypt on the bytes
\* lo..hi of the chunk the job of an XOR pass is at
RunXor(c, job, lo, hi) ==
  Written(job.out,
          IF c.kernel = "xor_encrypt_chunks"
          THEN xor_encrypt_map(nonce, c.key, pass_chunks(c)[job.k])
          ELSE xor_decrypt_map(nonce, c.key, pass_chunks(c)[job.k]),
          lo, hi)

\* The head of the loop of dynamic_shift and dynamic_unshift: the chunk of
\* turn c.i is copied out of the data and handed to for_each; "shifted"
\* when no turn is left
shift_turn(c, kernel) ==
  IF c.i >= Len(c.sizes) THEN [c EXCEPT !.at = "shifted"]
  ELSE Pass(c, "for_each", kernel, c.workers, c.key, <<>>,
            SubSeq(c.buf, c.cursor + 1, c.cursor + c.sizes[c.i + 1]),
            c.sizes[c.i + 1])

\* dynamic_shift and dynamic_unshift up to the first turn of the loop: the
\* key, the pool, the chunk sizes
shift_call(sys, c, data_in, kernel) ==
  IF build(c.config.thread_num, sys).tag # "Ok"
  THEN Return(c, build(c.config.thread_num, sys))
  ELSE shift_turn([c EXCEPT !.workers = build(c.config.thread_num, sys).val,
                            !.buf = data_in,
                            !.key = blake3_hash(nonce \o c.pwd),
                            !.sizes = get_chunk_sizes(Len(data_in), nonce,
                                                      blake3_hash(nonce \o c.pwd)),
                            !.i = 0, !.cursor = 0, !.acc = <<>>],
                  kernel)

\* shifted.par_extend(chunk) is over: cursor += size, and the next turn
shift_extended(c, kernel) ==
  shift_turn([c EXCEPT !.acc = c.acc \o c.cur,
                       !.cursor = c.cursor + c.sizes[c.i + 1],
                       !.i = c.i + 1],
             kernel)

\* dynamic_shift returns the reversed bytes, and s_bytes is applied to them
encrypt_shifted(sys, c) ==
  IF c.at # "shifted" THEN c
  ELSE Installed(sys, c, "s_bytes_shifted", "sbox", <<>>, Reverse(c.acc),
                 Slots(Len(c.acc)), Len(c.acc))

\* encrypt from the end of one parallel iterator to the start of the next,
\* or to its return
encrypt_next(sys, c) ==
  CASE c.at = "version" ->
         \* lines 1234-1239: the sbox, and s_bytes(data, ..)
         Installed(sys, [c EXCEPT !.version = c.cur,
                             !.table = generate_dynamic_sbox(nonce, c.pwd, c.config)],
                   "s_bytes", "sbox", <<>>, data, Slots(Len(data)), Len(data))
    [] c.at = "s_bytes" ->
         \* mix_blocks: the pool is built before the length is compared with 3
         IF build(c.config.thread_num, sys).tag # "Ok"
         THEN Return(c, build(c.config.thread_num, sys))
         ELSE IF Len(c.cur) = 3
         THEN \* return Ok(data.to_vec()): no iterator is run
              Pass(c, "mix_blocks", "mix_blocks", build(c.config.thread_num, sys).val,
                   <<>>, c.cur, c.cur, 0)
         ELSE Pass(c, "mix_blocks", "mix_blocks", build(c.config.thread_num, sys).val,
                   <<>>, c.cur, Slots(Len(c.cur)), Len(c.cur))
    [] c.at = "mix_blocks" ->
         \* triangle_mix_columns(&mut mixed_data, ..): the groups of mixed_data
         Installed(sys, c, "triangle_mix_columns", "triangle_mix_columns", <<>>, <<>>,
                   c.cur, Len(c.cur) \div 3)
    [] c.at = "triangle_mix_columns" ->
         \* auto_dynamic_chunk_shift(&mixed_columns_data, ..) on the CPU
         encrypt_shifted(sys, shift_call(sys, c, c.cur, "shift"))
    [] c.at = "for_each" ->
         Pass(c, "par_extend", "par_extend", c.workers, c.key, c.cur,
              Slots(Len(c.cur)), Len(c.cur))
    [] c.at = "par_extend" ->
         encrypt_shifted(sys, shift_extended(c, "shift"))
    [] c.at = "s_bytes_shifted" ->
         \* round_data = shifted_data.to_vec(), and the turn for i = 0
         xor_pass(sys, [c EXCEPT !.i = 0], c.cur, "xor_encrypt_chunks")
    [] c.at = "par_chunks" ->
         IF c.i = c.config.rounds
         THEN \* crypted.extend(crypted_chunks), then xor_encrypt(nonce, &pwd, &data)
              Pass([c EXCEPT !.crypted = Flatten(c.cur)], "mac", "xor_encrypt", num_threads(0, sys.cpus),
                   c.pwd, data, Slots(Len(data)), Len(data))
         ELSE xor_pass(sys, [c EXCEPT !.i = c.i + 1], Flatten(c.cur), "xor_encrypt_chunks")
    [] c.at = "mac" ->
         Return(c, IF c.cur = <<>> THEN Err("InvalidXor")
                   ELSE Ok((IF wrap_all THEN nonce ELSE <<>>)
                           \o c.version \o c.crypted
                           \o Sha3_512(c.crypted \o blake3_hash(c.cur))
                           \o (IF ~wrap_all THEN <<>>
                               ELSE IF custom_salt.some THEN custom_salt.val
                               ELSE nonce)))

\* decrypt, called with Some(nonce): the blob after the version ciphertext
decrypt_rest ==
  SubSeq(blob, (IF wrap_all THEN 32 ELSE 0) + Len(VERSION) + 1, Len(blob))

\* decrypt from the version check to the first XOR pass (lines 1369-1395)
decrypt_versions(sys, c) ==
  IF ~starts_with(c.version, VERSION_PREFIX) /\ ~starts_with(c.version_2, VERSION_PREFIX)
  THEN Return(c, Err("InvalidAlgorithm"))
  ELSE IF Len(decrypt_rest) < mac_tail_len(mac_split(c.version, c.version_2, wrap_all))
  THEN Return(c, Panic)
  ELSE xor_pass(sys, [c EXCEPT
                   !.crypted = SubSeq(decrypt_rest, 1,
                                      Len(decrypt_rest)
                                      - mac_tail_len(mac_split(c.version, c.version_2, wrap_all))),
                   !.mac_key = SubSeq(decrypt_rest,
                                      Len(decrypt_rest)
                                      - mac_tail_len(mac_split(c.version, c.version_2, wrap_all)) + 1,
                                      Len(decrypt_rest)
                                      - mac_tail_len(mac_split(c.version, c.version_2, wrap_all))
                                      + (IF mac_split(c.version, c.version_2, wrap_all) = "mac32"
                                         THEN 32 ELSE 64)),
                   !.i = c.config.rounds],
                SubSeq(decrypt_rest, 1,
                       Len(decrypt_rest)
                       - mac_tail_len(mac_split(c.version, c.version_2, wrap_all))),
                "xor_decrypt_chunks")

\* dynamic_unshift returns original, and inverse_triangle_mix_columns
\* rewrites its groups
decrypt_unshifted(sys, c) ==
  IF c.at # "shifted" THEN c
  ELSE Installed(sys, c, "inverse_triangle_mix_columns", "inverse_triangle_mix_columns",
                 <<>>, <<>>, c.acc, Len(c.acc) \div 3)

\* decrypt from the end of one parallel iterator to the start of the next,
\* or to its return
decrypt_next(sys, c) ==
  CASE c.at = "version" ->
         \* line 1367: version_2
         Pass([c EXCEPT !.version = c.cur], "version_2", "xor_decrypt", num_threads(0, sys.cpus),
              c.pwd, c.src, Slots(Len(c.src)), Len(c.src))
    [] c.at = "version_2" ->
         decrypt_versions(sys, [c EXCEPT !.version_2 = c.cur])
    [] c.at = "par_chunks" ->
         IF c.i = 0
         THEN \* xor_decrypted.extend(decrypted), then in_s_bytes(&xor_decrypted, ..)
              Installed(sys, [c EXCEPT !.table = generate_inv_s_box(
                                              generate_dynamic_sbox(nonce, c.pwd, c.config))],
                        "in_s_bytes", "sbox", <<>>, Flatten(c.cur),
                        Slots(Len(Flatten(c.cur))), Len(Flatten(c.cur)))
         ELSE xor_pass(sys, [c EXCEPT !.i = c.i - 1], Flatten(c.cur), "xor_decrypt_chunks")
    [] c.at = "in_s_bytes" ->
         \* auto_dynamic_chunk_unshift on the CPU: the bytes are reversed first
         decrypt_unshifted(sys, shift_call(sys, c, Reverse(c.cur), "unshift"))
    [] c.at = "for_each" ->
         Pass(c, "par_extend", "par_extend", c.workers, c.key, c.cur,
              Slots(Len(c.cur)), Len(c.cur))
    [] c.at = "par_extend" ->
         decrypt_unshifted(sys, shift_extended(c, "unshift"))
    [] c.at = "inverse_triangle_mix_columns" ->
         \* unmix_blocks: the pool is built before the length is compared with 3
         IF build(c.config.thread_num, sys).tag # "Ok"
         THEN Return(c, build(c.config.thread_num, sys))
         ELSE IF Len(c.cur) = 3
         THEN \* return Ok(data.to_vec()): no iterator is run
              Pass(c, "unmix_blocks", "unmix_blocks", build(c.config.thread_num, sys).val,
                   <<>>, c.cur, c.cur, 0)
         ELSE Pass(c, "unmix_blocks", "unmix_blocks", build(c.config.thread_num, sys).val,
                   <<>>, c.cur, Slots(Len(c.cur)), Len(c.cur))
    [] c.at = "unmix_blocks" ->
         \* in_s_bytes(&unmixed, ..)
         Installed(sys, c, "in_s_bytes_unmixed", "sbox", <<>>, c.cur,
                   Slots(Len(c.cur)), Len(c.cur))
    [] c.at = "in_s_bytes_unmixed" ->
         \* xor_encrypt(nonce_byte, &pwd, &decrypted_data)
         Pass([c EXCEPT !.buf = c.cur], "mac", "xor_encrypt", num_threads(0, sys.cpus),
              c.pwd, c.cur, Slots(Len(c.cur)), Len(c.cur))
    [] c.at = "mac" ->
         Return(c, IF c.cur = <<>> THEN Err("InvalidXor")
                   ELSE IF c.mac_key # (IF mac_construction(c.version) = "blake3"
                                        THEN blake3_keyed_hash(blake3_hash(c.crypted), c.cur)
                                        ELSE Sha3_512(c.crypted \o blake3_hash(c.cur)))
                   THEN Err("InvalidMac")
                   ELSE Ok(c.buf))

\* The system is d: one CPU or PoolCpus CPUs, and the most threads it
\* starts for one pool.  thread_num runs from 0 to one more than that, and
\* the loop of the XOR passes takes two turns (Config::rounds(1)).
ThreadsInit ==
  /\ pc = "start"
  /\ password = <<112, 119>>
  /\ data \in {Payload(len, 7) : len \in (1..MaxLen) \cup {PoolLen}}
  /\ nonce = Nonce1
  /\ \E n \in 0..(MaxThreads + 1) :
       config = [DefaultConfig EXCEPT !.thread_num = n, !.rounds = 1]
  /\ custom_salt = None
  /\ wrap_all = FALSE
  /\ enc = NoCall
  /\ blob = <<>>
  /\ tamper = Untouched
  /\ \E cpus \in {1, PoolCpus} : d = [cpus |-> cpus, limit |-> MaxThreads]
  /\ dec = NoCall

\* encrypt is called on data: the keys, then xor_encrypt(nonce, &pwd,
\* VERSION) on the global pool (lines 1219-1234)
EncryptStart ==
  /\ pc = "start"
  /\ enc' = Pass(NewCall(config), "version", "xor_encrypt", num_threads(0, d.cpus),
                 version_pwd, VERSION, Slots(Len(VERSION)), Len(VERSION))
  /\ pc' = "encrypt"
  /\ UNCHANGED <<password, data, nonce, config, custom_salt, wrap_all, blob, tamper, d, dec>>

\* decrypt is called with Some(nonce) on the blob encrypt returned, under a
\* Config with any thread_num: the keys, the length check, then
\* xor_decrypt(nonce_byte, &version_pwd, encrypted_version) on the global
\* pool (lines 1320-1366).  config becomes the Config of this call; of the
\* encrypt call, what it returned is kept, and whether its workers raced.
DecryptStart ==
  /\ pc = "encrypted" /\ enc.out.tag = "Ok"
  /\ blob' = enc.out.val
  /\ enc' = [out |-> enc.out, raced |-> enc.reordered /\ enc.stolen]
  /\ \E n \in 0..(MaxThreads + 1) : config' = [config EXCEPT !.thread_num = n]
  /\ dec' = IF Len(blob') < 32 + Len(VERSION)
            THEN Return(NewCall(config'), Err("InvalidMac"))
            ELSE Pass(NewCall(config'), "version", "xor_decrypt", num_threads(0, d.cpus),
                      version_pwd,
                      SubSeq(blob', (IF wrap_all THEN 32 ELSE 0) + 1,
                             (IF wrap_all THEN 32 ELSE 0) + Len(VERSION)),
                      Slots(Len(VERSION)), Len(VERSION))
  /\ pc' = "decrypt"
  /\ UNCHANGED <<password, data, nonce, custom_salt, wrap_all, tamper, d>>

\* The call in progress
Call == IF pc = "encrypt" THEN enc ELSE dec

\* The call goes on as c
Goes(c) ==
  /\ enc' = IF pc = "encrypt" THEN c ELSE enc
  /\ dec' = IF pc = "decrypt" THEN c ELSE dec

\* The iterator in progress is an XOR pass: the closure of an item calls
\* xor_encrypt or xor_decrypt, which runs a parallel iterator of its own on
\* the pool of the worker and waits for it
Nested(c) == c.kernel \in {"xor_encrypt_chunks", "xor_decrypt_chunks"}

\* The jobs of the sequence jobs that a worker has taken and not finished
Taken(jobs) == {k \in 1..Len(jobs) : jobs[k].st = "claimed"}

\* The workers at work on the first n jobs: one for a job a worker has
\* taken, and one for every job of the iterator inside it that a worker has
\* taken (the worker of the job takes the first of them itself, and while
\* it waits for the others it is free for other jobs)
RECURSIVE Busy(_, _)
Busy(jobs, n) ==
  IF n = 0 THEN 0
  ELSE Busy(jobs, n - 1)
       + (IF jobs[n].st # "claimed" THEN 0
          ELSE IF Taken(jobs[n].inner) = {} THEN 1
          ELSE Cardinality(Taken(jobs[n].inner)))

\* The sequence jobs with the job j cut in two at the middle, the left half
\* keeping the lower indices
Halved(jobs, j) ==
  SubSeq(jobs, 1, j - 1)
  \o << [jobs[j] EXCEPT !.hi = jobs[j].lo + ((jobs[j].hi - jobs[j].lo + 1) \div 2) - 1],
        [jobs[j] EXCEPT !.lo = jobs[j].lo + ((jobs[j].hi - jobs[j].lo + 1) \div 2)] >>
  \o SubSeq(jobs, j + 1, Len(jobs))

\* The job comes to the chunk k of an XOR pass: xor_encrypt or xor_decrypt
\* is called on the chunk and starts its iterator over the bytes
Entered(c, job, k) ==
  [job EXCEPT !.k = k, !.inner = Jobs(Len(pass_chunks(c)[k])),
              !.out = Slots(Len(pass_chunks(c)[k]))]

\* A job that no worker has taken and that holds more than one item is cut
\* in two
Split ==
  /\ pc \in {"encrypt", "decrypt"}
  /\ Len(Call.jobs) < MaxJobs
  /\ \E j \in 1..Len(Call.jobs) :
       /\ Call.jobs[j].st = "pending" /\ Call.jobs[j].lo < Call.jobs[j].hi
       /\ Goes([Call EXCEPT !.jobs = Halved(Call.jobs, j)])
  /\ UNCHANGED <<pc, password, data, nonce, config, custom_salt, wrap_all, blob, tamper, d>>

\* A worker of the pool takes a job, when fewer workers are at work than
\* the pool has.  In an XOR pass it comes to the first chunk of the job.
Claim ==
  /\ pc \in {"encrypt", "decrypt"}
  /\ Busy(Call.jobs, Len(Call.jobs)) < Call.workers
  /\ \E j \in 1..Len(Call.jobs) :
       /\ Call.jobs[j].st = "pending"
       /\ Goes([Call EXCEPT !.jobs[j] =
                  IF Nested(Call)
                  THEN Entered(Call, [Call.jobs[j] EXCEPT !.st = "claimed"], Call.jobs[j].lo)
                  ELSE [Call.jobs[j] EXCEPT !.st = "claimed"]])
  /\ UNCHANGED <<pc, password, data, nonce, config, custom_salt, wrap_all, blob, tamper, d>>

\* The worker finishes its job, of an iterator other than an XOR pass.
\* reordered records that a job was finished before one of lower indices.
Complete ==
  /\ pc \in {"encrypt", "decrypt"}
  /\ ~Nested(Call)
  /\ \E j \in 1..Len(Call.jobs) :
       /\ Call.jobs[j].st = "claimed"
       /\ Goes([Call EXCEPT
                  !.jobs[j].st = "done",
                  !.cur = RunJob(Call, Call.jobs[j].lo, Call.jobs[j].hi),
                  !.reordered = @ \/ (\E k \in 1..(j - 1) : Call.jobs[k].st # "done")])
  /\ UNCHANGED <<pc, password, data, nonce, config, custom_salt, wrap_all, blob, tamper, d>>

\* Inside a job of an XOR pass, a job of the iterator of xor_encrypt or
\* xor_decrypt that no worker has taken is cut in two
XorSplit ==
  /\ pc \in {"encrypt", "decrypt"}
  /\ Nested(Call)
  /\ \E j \in 1..Len(Call.jobs) :
       /\ Call.jobs[j].st = "claimed"
       /\ Len(Call.jobs[j].inner) < MaxXorJobs
       /\ \E i \in 1..Len(Call.jobs[j].inner) :
            /\ Call.jobs[j].inner[i].st = "pending"
            /\ Call.jobs[j].inner[i].lo < Call.jobs[j].inner[i].hi
            /\ Goes([Call EXCEPT !.jobs[j].inner = Halved(Call.jobs[j].inner, i)])
  /\ UNCHANGED <<pc, password, data, nonce, config, custom_salt, wrap_all, blob, tamper, d>>

\* A job of the iterator of xor_encrypt or xor_decrypt is taken: by the
\* worker that called the function, or by another worker of the pool while
\* that one is at work or waits.  stolen records that two jobs of one chunk
\* were at work at a time.
XorClaim ==
  /\ pc \in {"encrypt", "decrypt"}
  /\ Nested(Call)
  /\ \E j \in 1..Len(Call.jobs) :
       /\ Call.jobs[j].st = "claimed"
       /\ \E i \in 1..Len(Call.jobs[j].inner) :
            /\ Call.jobs[j].inner[i].st = "pending"
            /\ Taken(Call.jobs[j].inner) # {}
                 => Busy(Call.jobs, Len(Call.jobs)) < Call.workers
            /\ Goes([Call EXCEPT !.jobs[j].inner[i].st = "claimed",
                                 !.stolen = @ \/ Taken(Call.jobs[j].inner) # {}])
  /\ UNCHANGED <<pc, password, data, nonce, config, custom_salt, wrap_all, blob, tamper, d>>

\* A worker finishes a job of the iterator of xor_encrypt or xor_decrypt:
\* the bytes of the job are written to the Vec the iterator collects
XorComplete ==
  /\ pc \in {"encrypt", "decrypt"}
  /\ Nested(Call)
  /\ \E j \in 1..Len(Call.jobs) :
       /\ Call.jobs[j].st = "claimed"
       /\ \E i \in 1..Len(Call.jobs[j].inner) :
            /\ Call.jobs[j].inner[i].st = "claimed"
            /\ Goes([Call EXCEPT
                       !.jobs[j].inner[i].st = "done",
                       !.jobs[j].out = RunXor(Call, Call.jobs[j], Call.jobs[j].inner[i].lo,
                                              Call.jobs[j].inner[i].hi),
                       !.reordered = @ \/ (\E k \in 1..(i - 1) :
                                             Call.jobs[j].inner[k].st # "done")])
  /\ UNCHANGED <<pc, password, data, nonce, config, custom_salt, wrap_all, blob, tamper, d>>

\* The iterator of xor_encrypt or xor_decrypt is over and the function
\* returns to the closure of the XOR pass: InvalidXor for an empty Vec,
\* which ends the call, and otherwise the Vec, which is the result of the
\* chunk.  The job goes on to its next chunk, or is done.
XorReturn ==
  /\ pc \in {"encrypt", "decrypt"}
  /\ Nested(Call)
  /\ \E j \in 1..Len(Call.jobs) :
       /\ Call.jobs[j].st = "claimed"
       /\ \A i \in 1..Len(Call.jobs[j].inner) : Call.jobs[j].inner[i].st = "done"
       /\ Goes(IF Call.jobs[j].out = <<>> THEN Return(Call, Err("InvalidXor"))
               ELSE [Call EXCEPT
                       !.cur[Call.jobs[j].k] = Call.jobs[j].out,
                       !.jobs[j] =
                          IF Call.jobs[j].k < Call.jobs[j].hi
                          THEN Entered(Call, Call.jobs[j], Call.jobs[j].k + 1)
                          ELSE [Call.jobs[j] EXCEPT !.st = "done", !.k = 0,
                                                    !.inner = <<>>, !.out = <<>>],
                       !.reordered = @ \/ (/\ Call.jobs[j].k = Call.jobs[j].hi
                                           /\ \E k \in 1..(j - 1) : Call.jobs[k].st # "done")])
  /\ UNCHANGED <<pc, password, data, nonce, config, custom_salt, wrap_all, blob, tamper, d>>

\* Every job of the iterator is done: the function that ran it goes on to
\* its next parallel iterator, or the call returns.  Where it builds a
\* pool, the system starts the threads or fails to.
Join ==
  /\ pc \in {"encrypt", "decrypt"}
  /\ Call.at # "returned"
  /\ \A j \in 1..Len(Call.jobs) : Call.jobs[j].st = "done"
  /\ \E fails \in BOOLEAN :
       Goes(IF pc = "encrypt"
            THEN encrypt_next([cpus |-> d.cpus, limit |-> d.limit, fails |-> fails], enc)
            ELSE decrypt_next([cpus |-> d.cpus, limit |-> d.limit, fails |-> fails], dec))
  /\ UNCHANGED <<pc, password, data, nonce, config, custom_salt, wrap_all, blob, tamper, d>>

\* The call has returned to its caller
Returns ==
  /\ pc \in {"encrypt", "decrypt"}
  /\ Call.at = "returned"
  /\ pc' = IF pc = "encrypt" THEN "encrypted" ELSE "decrypted"
  /\ UNCHANGED <<password, data, nonce, config, custom_salt, wrap_all, enc, blob, tamper, d, dec>>

NextThreads ==
  \/ EncryptStart \/ DecryptStart \/ Split \/ Claim \/ Complete
  \/ XorSplit \/ XorClaim \/ XorComplete \/ XorReturn \/ Join \/ Returns

SpecThreads == ThreadsInit /\ [][NextThreads]_vars

\* An iterator all of whose jobs are done has written every slot
AllWritten(c) ==
  \A k \in 1..Len(c.cur) :
    IF Nested(c) THEN c.cur[k] # <<>> /\ (\A b \in 1..Len(c.cur[k]) : c.cur[k][b] # -1)
    ELSE c.cur[k] # -1

\* C14: the blob encrypt returns and the payload decrypt returns are the
\* same for every thread_num and every interleaving of the workers.  Every
\* parallel pass of the two calls (S-box, mix, column mix, chunked shift,
\* XOR, version tag and MAC input) is cut into jobs that the workers take
\* and finish in any order, as many at a time as the pool has workers, and
\* every chunk of an XOR pass is cut again into jobs over its bytes, which
\* the workers of the same pool take and finish between the other jobs.
\* Whatever the thread_num, the number of CPUs and the order, every pass
\* ends with every slot written, a blob encrypt returns is the blob of the
\* pipeline computed index by index, and what decrypt returns for that
\* blob, under a thread_num of its own, is the payload.  The one other
\* outcome is the ThreadPool error without any bytes; it is returned when
\* the system does not start the threads of a pool, which is the case
\* whenever the configured number is above what the system starts.
C14_ThreadIndependence ==
  /\ (/\ pc \in {"encrypt", "decrypt"} /\ Call.at # "returned"
      /\ \A j \in 1..Len(Call.jobs) : Call.jobs[j].st = "done")
       => AllWritten(Call)
  /\ pc = "encrypted" =>
       /\ enc.out \in {encrypt(password, data, nonce, [config EXCEPT !.thread_num = 1],
                               custom_salt, wrap_all).out,
                       Err("ThreadPool")}
       /\ num_threads(config.thread_num, d.cpus) > d.limit => enc.out = Err("ThreadPool")
  /\ pc = "decrypted" =>
       /\ blob = encrypt(password, data, nonce, [config EXCEPT !.thread_num = 1],
                         custom_salt, wrap_all).out.val
       /\ dec.out \in {Ok(data), Err("ThreadPool")}
       /\ num_threads(dec.config.thread_num, d.cpus) > d.limit => dec.out = Err("ThreadPool")
       /\ dec.out.tag = "Ok" =>
            dec.out = decrypt(password, blob, Some(nonce), [config EXCEPT !.thread_num = 1],
                              custom_salt, wrap_all).out

\* PoolLen bytes were encrypted and the blob decrypted under thread_num 1
\* on a system of PoolCpus CPUs; in each call some job
\* was finished before a job of lower indices and two jobs over the bytes
\* of one chunk of an XOR pass were at work at a time; and the payload came
\* back
C14_Witness ==
  /\ pc = "decrypted" /\ Len(data) = PoolLen /\ d.cpus = PoolCpus
  /\ enc.raced /\ dec.reordered /\ dec.stolen
  /\ dec.config.thread_num = 1
  /\ blob = enc.out.val /\ dec.out = Ok(data)

--------------------------------------------------------------------------
(* Config: its constructors and its builder methods.  config holds the    *)
(* value under construction, d the last method called and its argument.   *)

\* num_cpus::get(): the number of CPUs of the machine, MaxThreads here
num_cpus_get == MaxThreads

\* impl Default for Config
Config_default ==
  [rounds |-> DefaultRounds, device |-> "Cpu", sbox |-> "PasswordAndNonceBased",
   thread_num |-> num_cpus_get, gf_poly |-> AES]

Profiles == {"Secure", "Balanced", "Fast"}

from_profile(profile) ==
  CASE profile = "Fast" ->
         [rounds |-> 2, device |-> "Gpu", sbox |-> "PasswordBased",
          thread_num |-> num_cpus_get, gf_poly |-> AES]
    [] profile = "Balanced" ->
         [rounds |-> 3, device |-> "Auto", sbox |-> "PasswordAndNonceBased",
          thread_num |-> num_cpus_get, gf_poly |-> AES]
    [] profile = "Secure" ->
         [rounds |-> 3, device |-> "Cpu", sbox |-> "PasswordAndNonceBased",
          thread_num |-> num_cpus_get, gf_poly |-> AES]

with_sbox(self, sbox) == [self EXCEPT !.sbox = sbox]

with_device(self, device) == [self EXCEPT !.device = device]

set_thread(self, num) == [self EXCEPT !.thread_num = num]

\* Config::gf_poly
set_gf_poly(self, poly) == [self EXCEPT !.gf_poly = poly]

\* The number of rounds stored as it was given
set_rounds_unclamped(self, num) == [self EXCEPT !.rounds = num]

\* Config::rounds
set_rounds(self, num) ==
  IF num < 1 THEN [self EXCEPT !.rounds = 1] ELSE [self EXCEPT !.rounds = num]

DeviceList == {"Auto", "Cpu", "Gpu"}

ConfigInit ==
  /\ pc = "config"
  /\ config \in {Config_default} \cup {from_profile(p) : p \in Profiles}
  /\ d = [method |-> "new", arg |-> 0]
  /\ password = <<>>
  /\ data = <<>>
  /\ nonce = <<>>
  /\ custom_salt = None
  /\ wrap_all = FALSE
  /\ enc = NoCall
  /\ blob = <<>>
  /\ tamper = Untouched
  /\ dec = NoCall

WithSbox ==
  /\ \E sbox \in SboxTypes :
       /\ config' = with_sbox(config, sbox)
       /\ d' = [method |-> "with_sbox", arg |-> sbox]
  /\ UNCHANGED <<pc, password, data, nonce, custom_salt, wrap_all, enc, blob, tamper, dec>>

WithDevice ==
  /\ \E device \in DeviceList :
       /\ config' = with_device(config, device)
       /\ d' = [method |-> "with_device", arg |-> device]
  /\ UNCHANGED <<pc, password, data, nonce, custom_salt, wrap_all, enc, blob, tamper, dec>>

SetThread ==
  /\ \E num \in 0..MaxThreads :
       /\ config' = set_thread(config, num)
       /\ d' = [method |-> "set_thread", arg |-> num]
  /\ UNCHANGED <<pc, password, data, nonce, custom_salt, wrap_all, enc, blob, tamper, dec>>

GfPoly ==
  /\ \E poly \in GfPolys :
       /\ config' = set_gf_poly(config, poly)
       /\ d' = [method |-> "gf_poly", arg |-> poly]
  /\ UNCHANGED <<pc, password, data, nonce, custom_salt, wrap_all, enc, blob, tamper, dec>>

\* num is a usize: 0 is the only value below 1
Rounds ==
  /\ \E num \in 0..MaxRounds :
       /\ config' = set_rounds(config, num)
       /\ d' = [method |-> "rounds", arg |-> num]
  /\ UNCHANGED <<pc, password, data, nonce, custom_salt, wrap_all, enc, blob, tamper, dec>>

NextConfig == WithSbox \/ WithDevice \/ SetThread \/ GfPoly \/ Rounds

SpecConfig == ConfigInit /\ [][NextConfig]_vars

\* C15: Config::rounds(n) stores 1 when n < 1 and n otherwise, and every
\* Config made by Config::default or Config::from_profile and any sequence
\* of with_sbox, with_device, set_thread, gf_poly and rounds has rounds >= 1.
C15_RoundsClamped ==
  /\ config.rounds >= 1
  /\ d.method = "rounds" => config.rounds = (IF d.arg < 1 THEN 1 ELSE d.arg)

\* rounds(0) was called on a Config that went through other methods, and
\* the Config holds rounds = 1.
C15_Witness ==
  /\ d = [method |-> "rounds", arg |-> 0]
  /\ config.rounds = 1
  /\ config.device = "Gpu" /\ config.gf_poly = Custom4d /\ config.thread_num = 0

--------------------------------------------------------------------------
(* AtomCrypteBuilder: d holds the builder, enc and dec what its encrypt   *)
(* and decrypt returned (core: whether the core function was run).        *)

\* AtomCrypteBuilder::new
AtomCrypteBuilder_new ==
  [password |-> None, data |-> None, config |-> None, nonce |-> None,
   salt |-> None, wrap_all |-> FALSE, benchmark |-> FALSE]

BuildFailed == [out |-> Err("BuildFailed"), core |-> FALSE]

\* AtomCrypteBuilder::decrypt that asks for the nonce as encrypt does
AtomCrypteBuilder_decrypt_strict(self) ==
  IF ~self.config.some \/ ~self.data.some \/ ~self.password.some \/ ~self.nonce.some
  THEN BuildFailed
  ELSE [out |-> decrypt(self.password.val, self.data.val, self.nonce,
                        self.config.val, self.salt, self.wrap_all).out,
        core |-> TRUE]

\* AtomCrypteBuilder::encrypt; with and without benchmark the call of the
\* core is the same
AtomCrypteBuilder_encrypt(self) ==
  IF ~self.config.some THEN BuildFailed
  ELSE IF ~self.data.some THEN BuildFailed
  ELSE IF ~self.password.some THEN BuildFailed
  ELSE IF ~self.nonce.some THEN BuildFailed
  ELSE [out |-> encrypt(self.password.val, self.data.val, self.nonce.val,
                        self.config.val, self.salt, self.wrap_all).out,
        core |-> TRUE]

\* AtomCrypteBuilder::decrypt
AtomCrypteBuilder_decrypt(self) ==
  IF ~self.config.some THEN BuildFailed
  ELSE IF ~self.data.some THEN BuildFailed
  ELSE IF ~self.password.some THEN BuildFailed
  ELSE [out |-> decrypt(self.password.val, self.data.val, self.nonce,
                        self.config.val, self.salt, self.wrap_all).out,
        core |-> TRUE]

\* A blob made with wrap_all and no salt, for the builder to decrypt
WrappedBlob ==
  encrypt(<<112, 119>>, Payload(2, 7), Nonce1, DefaultConfig, None, TRUE).out.val

BuilderInit ==
  /\ pc = "builder"
  /\ d = AtomCrypteBuilder_new
  /\ password = <<112, 119>>
  /\ data = Payload(2, 7)
  /\ nonce = Nonce1
  /\ config = DefaultConfig
  /\ custom_salt = Some(Salt1)
  /\ wrap_all = FALSE
  /\ enc = NoCall
  /\ blob = WrappedBlob
  /\ tamper = Untouched
  /\ dec = NoCall

\* AtomCrypteBuilder::data, with a payload or with a blob
SetData ==
  /\ pc = "builder"
  /\ \E bytes \in {data, blob} : d' = [d EXCEPT !.data = Some(bytes)]
  /\ UNCHANGED <<pc, password, data, nonce, config, custom_salt, wrap_all, enc, blob, tamper, dec>>

\* AtomCrypteBuilder::config
SetConfig ==
  /\ pc = "builder"
  /\ d' = [d EXCEPT !.config = Some(config)]
  /\ UNCHANGED <<pc, password, data, nonce, config, custom_salt, wrap_all, enc, blob, tamper, dec>>

\* AtomCrypteBuilder::password
SetPassword ==
  /\ pc = "builder"
  /\ d' = [d EXCEPT !.password = Some(password)]
  /\ UNCHANGED <<pc, password, data, nonce, config, custom_salt, wrap_all, enc, blob, tamper, dec>>

\* AtomCrypteBuilder::nonce
SetNonce ==
  /\ pc = "builder"
  /\ d' = [d EXCEPT !.nonce = Some(nonce)]
  /\ UNCHANGED <<pc, password, data, nonce, config, custom_salt, wrap_all, enc, blob, tamper, dec>>

\* AtomCrypteBuilder::salt
SetSalt ==
  /\ pc = "builder"
  /\ d' = [d EXCEPT !.salt = custom_salt]
  /\ UNCHANGED <<pc, password, data, nonce, config, custom_salt, wrap_all, enc, blob, tamper, dec>>

\* AtomCrypteBuilder::wrap_all
SetWrapAll ==
  /\ pc = "builder"
  /\ \E b \in BOOLEAN : d' = [d EXCEPT !.wrap_all = b]
  /\ UNCHANGED <<pc, password, data, nonce, config, custom_salt, wrap_all, enc, blob, tamper, dec>>

\* AtomCrypteBuilder::benchmark
SetBenchmark ==
  /\ pc = "builder"
  /\ d' = [d EXCEPT !.benchmark = TRUE]
  /\ UNCHANGED <<pc, password, data, nonce, config, custom_salt, wrap_all, enc, blob, tamper, dec>>

\* AtomCrypteBuilder::encrypt, which consumes the builder
BuilderEncrypt ==
  /\ pc = "builder"
  /\ enc' = AtomCrypteBuilder_encrypt(d)
  /\ pc' = "encrypt returned"
  /\ UNCHANGED <<password, data, nonce, config, custom_salt, wrap_all, blob, tamper, d, dec>>

\* AtomCrypteBuilder::decrypt, which consumes the builder
BuilderDecrypt ==
  /\ pc = "builder"
  /\ dec' = AtomCrypteBuilder_decrypt(d)
  /\ pc' = "decrypt returned"
  /\ UNCHANGED <<password, data, nonce, config, custom_salt, wrap_all, enc, blob, tamper, d>>

NextBuilder ==
  \/ SetData \/ SetConfig \/ SetPassword \/ SetNonce \/ SetSalt \/ SetWrapAll
  \/ SetBenchmark \/ BuilderEncrypt \/ BuilderDecrypt

SpecBuilder == BuilderInit /\ [][NextBuilder]_vars

\* C16: AtomCrypteBuilder::encrypt returns BuildFailed without running the
\* core whenever config, data, password or nonce was never set;
\* AtomCrypteBuilder::decrypt does whenever config, data or password was
\* never set, and with these three set it runs the core and does not return
\* BuildFailed, whether or not nonce and salt were set.
C16_BuildFailed ==
  /\ pc = "encrypt returned"
       /\ (~d.config.some \/ ~d.data.some \/ ~d.password.some \/ ~d.nonce.some)
       => enc = BuildFailed
  /\ pc = "decrypt returned"
       /\ (~d.config.some \/ ~d.data.some \/ ~d.password.some)
       => dec = BuildFailed
  /\ pc = "decrypt returned" /\ d.config.some /\ d.data.some /\ d.password.some
       => dec.core /\ dec.out.tag # "BuildFailed"

\* decrypt of a builder with config, data, password and wrap_all but
\* neither nonce nor salt ran the core and returned the payload.
C16_Witness ==
  /\ pc = "decrypt returned"
  /\ d.config.some /\ d.password.some /\ d.data = Some(WrappedBlob) /\ d.wrap_all
  /\ ~d.nonce.some /\ ~d.salt.some
  /\ dec = [out |-> Ok(Payload(2, 7)), core |-> TRUE]

--------------------------------------------------------------------------
(* dynamic_sizes over the whole range of its arms.  A length is written   *)
(* as its decimal digits, the most significant first, since the lengths   *)
(* of the upper arms are beyond 32-bit integers.  d holds the two         *)
(* lengths, dec the two sizes returned.                                   *)

\* The lengths below 10^19, the end of the last arm, have up to 19 digits
MaxDigits == 19

\* The lengths at the two ends of every decade: 0 and 9, 10 and 99, ...,
\* 10^18 and 10^19 - 1, and one length inside
Lengths ==
  {<<0>>}
  \cup {Vec([i \in 1..k |-> 9]) : k \in 1..MaxDigits}
  \cup {Vec([i \in 1..k |-> IF i = 1 THEN 1 ELSE 0]) : k \in 2..MaxDigits}
  \cup {Vec([i \in 1..k |-> IF i = 1 THEN 4 ELSE 2]) : k \in 2..MaxDigits}

\* a <= b for two lengths in decimal digits
RECURSIVE DecLeq(_, _)
DecLeq(a, b) ==
  IF Len(a) # Len(b) THEN Len(a) < Len(b)
  ELSE IF a = <<>> THEN TRUE
  ELSE IF Head(a) # Head(b) THEN Head(a) < Head(b)
  ELSE DecLeq(Tail(a), Tail(b))

\* The value of a length of up to 9 digits
RECURSIVE DecValue(_)
DecValue(a) == IF a = <<>> THEN 0 ELSE (DecValue(SubSeq(a, 1, Len(a) - 1)) * 10) + a[Len(a)]

\* dynamic_sizes with the arms of 10^6.. and 10^7.. exchanged
dynamic_sizes_exchanged(len) ==
  CASE Len(len) = 7 -> 8096
    [] Len(len) = 8 -> 4096
    [] OTHER -> dynamic_sizes_arm(Len(len))

\* dynamic_sizes of a length in decimal digits: the arm of its decade
dynamic_sizes_dec(len) == dynamic_sizes_arm(Len(len))

SizesInit ==
  /\ pc = "start"
  /\ \E a \in Lengths, b \in Lengths : d = [a |-> a, b |-> b]
  /\ password = <<>>
  /\ data = <<>>
  /\ nonce = <<>>
  /\ config = DefaultConfig
  /\ custom_salt = None
  /\ wrap_all = FALSE
  /\ enc = NoCall
  /\ blob = <<>>
  /\ tamper = Untouched
  /\ dec = NoCall

\* dynamic_sizes is called on the two lengths
Sizes ==
  /\ pc = "start"
  /\ dec' = [a |-> dynamic_sizes_dec(d.a), b |-> dynamic_sizes_dec(d.b)]
  /\ pc' = "sized"
  /\ UNCHANGED <<password, data, nonce, config, custom_salt, wrap_all, enc, blob, tamper, d>>

SpecSizes == SizesInit /\ [][Sizes]_vars

\* C17: dynamic_sizes is non-decreasing, dynamic_sizes(a) <= dynamic_sizes(b)
\* for all lengths a <= b below 10^19, and every size it returns is at
\* least 14.
C17_SizesMonotone ==
  pc = "sized" =>
    /\ dec.a >= 14 /\ dec.b >= 14
    /\ DecLeq(d.a, d.b) => dec.a <= dec.b
    /\ Len(d.a) <= 9 => dec.a = dynamic_sizes(DecValue(d.a))

\* The sizes of 999 and of 10^19 - 1, the ends of the first and of the
\* last arm: 14 and 4194304.
C17_Witness ==
  /\ pc = "sized"
  /\ d.a = <<9, 9, 9>> /\ Len(d.b) = MaxDigits /\ d.b[1] = 9
  /\ dec.a = 14 /\ dec.b = 4194304

--------------------------------------------------------------------------
(* The XOR passes, one pass at a time: the loop of encrypt on a buffer,   *)
(* then the loop of decrypt on what it gave.  enc and dec hold the loop   *)
(* variable i, round_data, and what the passes so far were given: their   *)
(* keys, their chunk sizes and their buffers.  blob is crypted, and dec   *)
(* holds xor_decrypted: the last turn of either loop extends that buffer  *)
(* and leaves round_data as it was.  pc tells the loop that is running.   *)

RoundsInit ==
  /\ pc = "start"
  /\ password \in Passwords
  /\ data \in Payloads \ {<<>>}
  /\ nonce = Nonce1
  /\ \E r \in {1, DefaultRounds, MaxRounds} : config = [DefaultConfig EXCEPT !.rounds = r]
  /\ custom_salt = None
  /\ wrap_all = FALSE
  /\ enc = [i |-> 0, round_data |-> data, keys |-> <<>>, sizes |-> <<>>, bufs |-> <<>>]
  /\ blob = <<>>
  /\ tamper = Untouched
  /\ d = NoArgs
  /\ dec = NoCall

\* One turn of for i in 0..=config.rounds in encrypt (lines 1260-1281):
\* the output of the pass replaces round_data, but in the last turn it
\* goes to crypted (blob) and round_data stays.  i is the front of the
\* inclusive range: the last turn leaves it at config.rounds and marks
\* the range exhausted (pc).
EncryptPass ==
  /\ pc = "start" /\ enc.i <= config.rounds
  /\ enc' = [i |-> IF enc.i = config.rounds THEN enc.i ELSE enc.i + 1,
             round_data |-> IF enc.i = config.rounds THEN enc.round_data
                            ELSE encrypt_round(enc.round_data, nonce,
                                               round_key(EncryptKey, enc.i)),
             keys |-> Append(enc.keys, round_key(EncryptKey, enc.i)),
             sizes |-> Append(enc.sizes, dynamic_sizes(Len(enc.round_data))),
             bufs |-> Append(enc.bufs, enc.round_data)]
  /\ IF enc.i = config.rounds
     THEN /\ pc' = "encrypted"
          /\ blob' = blob \o encrypt_round(enc.round_data, nonce, round_key(EncryptKey, enc.i))
     ELSE UNCHANGED <<pc, blob>>
  /\ UNCHANGED <<password, data, nonce, config, custom_salt, wrap_all, tamper, d, dec>>

\* decrypt up to its loop (lines 1392-1393): xor_decrypted is empty and
\* round_data a copy of the body crypted
DecryptCall ==
  /\ pc = "encrypted"
  /\ dec' = [i |-> config.rounds, round_data |-> blob, xor_decrypted |-> <<>>,
             keys |-> <<>>, sizes |-> <<>>, bufs |-> <<>>]
  /\ pc' = "decrypting"
  /\ UNCHANGED <<password, data, nonce, config, custom_salt, wrap_all, enc, blob, tamper, d>>

\* One turn of for i in (0..=config.rounds).rev() in decrypt (lines
\* 1395-1417): the output of the pass replaces round_data, but in the
\* last turn (i = 0) it goes to xor_decrypted and round_data stays.  i is
\* the back of the inclusive range: the last turn leaves it at 0 and
\* marks the range exhausted (pc).
DecryptPass ==
  /\ pc = "decrypting" /\ dec.i >= 0
  /\ dec' = [i |-> IF dec.i = 0 THEN 0 ELSE dec.i - 1,
             round_data |-> IF dec.i = 0 THEN dec.round_data
                            ELSE decrypt_round(dec.round_data, nonce,
                                               round_key(EncryptKey, dec.i)),
             xor_decrypted |-> IF dec.i = 0
                               THEN dec.xor_decrypted
                                    \o decrypt_round(dec.round_data, nonce,
                                                     round_key(EncryptKey, dec.i))
                               ELSE dec.xor_decrypted,
             keys |-> Append(dec.keys, round_key(EncryptKey, dec.i)),
             sizes |-> Append(dec.sizes, dynamic_sizes(Len(dec.round_data))),
             bufs |-> Append(dec.bufs,
                             decrypt_round(dec.round_data, nonce, round_key(EncryptKey, dec.i)))]
  /\ pc' = IF dec.i = 0 THEN "done" ELSE pc
  /\ UNCHANGED <<password, data, nonce, config, custom_salt, wrap_all, enc, blob, tamper, d>>

NextRounds == EncryptPass \/ DecryptCall \/ DecryptPass

SpecRounds == RoundsInit /\ [][NextRounds]_vars

\* C18: encrypt applies exactly rounds + 1 XOR passes, pass i under the
\* Blake3 hash of the first min(8 i, 32) bytes of k_pw, for i = 0, ..,
\* rounds in this order; decrypt applies the rounds + 1 inverse passes under
\* the same keys in the opposite order.  No pass changes the length of the
\* buffer, so pass i works on chunks of the same size on both sides, and
\* the inverse pass gives back the buffer pass i was given.
C18_RoundSchedule ==
  /\ pc \in {"encrypted", "decrypting", "done"} =>
       /\ Len(enc.keys) = config.rounds + 1
       /\ \A i \in 0..config.rounds :
            enc.keys[i + 1] =
              blake3_hash(SubSeq(EncryptKey, 1, IF 8 * i < 32 THEN 8 * i ELSE 32))
       /\ \A k \in 1..Len(enc.bufs) : Len(enc.bufs[k]) = Len(data)
       /\ Len(blob) = Len(data)
       /\ blob = encrypt_rounds(data, nonce, EncryptKey, config.rounds, 0)
  /\ pc = "done" =>
       /\ dec.keys = Reverse(enc.keys)
       /\ dec.sizes = Reverse(enc.sizes)
       /\ dec.bufs = Reverse(enc.bufs)
       /\ dec.xor_decrypted = data
       /\ dec.xor_decrypted = decrypt_rounds(blob, nonce, EncryptKey, config.rounds)

\* MaxRounds + 1 passes over a buffer of three chunks were applied and
\* then undone.
C18_Witness ==
  /\ pc = "done" /\ config.rounds = MaxRounds /\ Len(data) = LongLen
  /\ Len(enc.keys) = MaxRounds + 1 /\ Len(dec.keys) = MaxRounds + 1
  /\ dec.xor_decrypted = data /\ blob # data
  /\ enc.round_data # blob /\ dec.round_data # data

\* C19: decrypt returns InvalidAlgorithm exactly when the blob holds a
\* 16-byte version ciphertext and neither its decryption under k_version nor
\* its decryption under k_pw starts with the 12 bytes atom-version; when one
\* of the two does, decrypt goes on to the body and does not return
\* InvalidAlgorithm.
C19_VersionCheck ==
  pc = "done" =>
    IF Len(blob) < 32 + Len(VERSION)
    THEN dec.out.tag # "InvalidAlgorithm"
    ELSE LET nonce_byte == IF d.nonce.some THEN d.nonce.val ELSE SubSeq(blob, 1, 32)
             salt == IF d.nonce.some THEN d.custom_salt
                     ELSE Some(SubSeq(blob, Len(blob) - 31, Len(blob)))
             offset == IF d.nonce.some /\ ~d.wrap_all THEN 0 ELSE 32
             tag == SubSeq(blob, offset + 1, offset + Len(VERSION))
             k_pw == derive_password_key(derive_key(d.password, nonce_byte),
                                         nonce_byte, salt).val
             version == xor_decrypt(nonce_byte, version_pwd, tag).val
             version_2 == xor_decrypt(nonce_byte, k_pw, tag).val
         IN  dec.out.tag = "InvalidAlgorithm" <=>
               /\ SubSeq(version, 1, 12) # VERSION_PREFIX
               /\ SubSeq(version_2, 1, 12) # VERSION_PREFIX

\* One bit was flipped in the first twelve bytes of the version ciphertext
\* of a blob without prefix, and decrypt returned InvalidAlgorithm.
C19_Witness ==
  /\ pc = "done" /\ tamper.kind = "flip" /\ ~wrap_all /\ tamper.pos \in 1..12
  /\ blob # enc.out.val
  /\ dec.out = Err("InvalidAlgorithm")

--------------------------------------------------------------------------
(* The column mixer on its own, under every polynomial a Config can hold: *)
(* config.gf_poly is the byte of IrreduciblePoly::value.  Both functions  *)
(* take data: &mut [u8], rewrite the complete groups of three in place    *)
(* and return a copy of the buffer.  data is the buffer given to          *)
(* triangle_mix_columns, blob the Vec it returned, which is the buffer    *)
(* given to inverse_triangle_mix_columns, dec.out what that returned.     *)
(* enc.x and dec.x keep the bytes each buffer held when it was handed     *)
(* over, which the call overwrites.                                       *)

MixerInit ==
  /\ pc = "start"
  /\ data \in {Payload(len, 7) : len \in (0..MaxLen) \cup {LongLen}}
  /\ \E poly \in Byte : config = [DefaultConfig EXCEPT !.gf_poly = poly]
  /\ password = <<>>
  /\ nonce = <<>>
  /\ custom_salt = None
  /\ wrap_all = FALSE
  /\ enc = NoCall
  /\ blob = <<>>
  /\ tamper = Untouched
  /\ d = NoArgs
  /\ dec = NoCall

\* triangle_mix_columns on the buffer data: the groups of three are
\* rewritten in place (lines 792-800) and Ok(data.to_vec()) is returned
\* (line 803)
MixColumns ==
  /\ pc = "start"
  /\ enc' = [x |-> data]
  /\ data' = triangle_mix_columns(data, config.gf_poly)
  /\ blob' = data'
  /\ pc' = "mixed"
  /\ UNCHANGED <<password, nonce, config, custom_salt, wrap_all, tamper, d, dec>>

\* inverse_triangle_mix_columns on the buffer blob: the groups of three
\* are rewritten in place (lines 817-834) and Ok(data.to_vec()) is
\* returned (line 837)
UnmixColumns ==
  /\ pc = "mixed"
  /\ blob' = inverse_triangle_mix_columns(blob, config.gf_poly)
  /\ dec' = [x |-> blob, out |-> Ok(blob')]
  /\ pc' = "unmixed"
  /\ UNCHANGED <<password, data, nonce, config, custom_salt, wrap_all, enc, tamper, d>>

NextMixer == MixColumns \/ UnmixColumns

SpecMixer == MixerInit /\ [][NextMixer]_vars

\* The bytes after the last complete group of three are the same in a and b
SameTail(a, b) ==
  /\ Len(a) = Len(b)
  /\ \A i \in ((3 * (Len(a) \div 3)) + 1)..Len(a) : a[i] = b[i]

\* The bits of the byte that are set
PopCount(b) == Cardinality({k \in 0..7 : (b \div Pow2(k)) % 2 = 1})

\* C20, as stated: for AES and every Custom(u8) and every buffer x,
\* inverse_triangle_mix_columns(triangle_mix_columns(x)) = x.
C20_MixerInverseAsStated ==
  pc = "unmixed" => dec.out.val = enc.x

\* C20, amended: inverse_triangle_mix_columns undoes triangle_mix_columns
\* on every buffer under every polynomial for which 3, 4 and 5 have
\* inverses in the table, which are AES and the Custom values that are odd
\* and have an even number of bits set; under every polynomial both
\* directions keep the length and leave the trailing |x| mod 3 bytes as
\* they are, in the Vec returned and in the buffer given.
C20_MixerInverse ==
  /\ pc \in {"mixed", "unmixed"} => SameTail(enc.x, data)
  /\ pc = "mixed" => blob = data
  /\ pc = "unmixed" =>
       /\ dec.x = data
       /\ SameTail(dec.x, dec.out.val)
       /\ blob = dec.out.val
       /\ MixerInvertible(config.gf_poly) => dec.out.val = enc.x
       /\ MixerInvertible(config.gf_poly) <=>
            (config.gf_poly % 2 = 1 /\ PopCount(config.gf_poly) % 2 = 0)

\* A buffer of LongLen bytes came back under a polynomial that is neither
\* AES nor one of the documentation, Custom(0x65): the buffer given to
\* the mixer holds the mixed bytes, the one given to the inverse the
\* bytes of x again.
C20_Witness ==
  /\ pc = "unmixed" /\ config.gf_poly = 101 /\ Len(enc.x) = LongLen
  /\ data # enc.x /\ dec.x = data
  /\ dec.out.val = enc.x /\ blob = enc.x

--------------------------------------------------------------------------
(* The tables of GaloisField, one call at a time.  A field is built for
   a polynomial; multiply runs its loop one iteration per step for the
   entry mul_table[a][b], and inverse is looked up for a. *)

\* The polynomials the fields are built for: the three of the
\* documentation, and the bytes 0 and 0xff
FieldPolys == {AES, Custom4d, Custom1a, 0, 255}

\* The second factors of the entries looked at
FieldFactors == {0, 1, 2, 3, 4, 5, 19, 83, 87, 128, 131, 202, 254, 255}

\* One iteration of the while loop of multiply on its three locals
multiply_step_unreduced(poly, st) ==
  [p |-> IF st.b_val % 2 # 0 THEN BXor(st.p, st.a_val % 256) ELSE st.p,
   a_val |-> (st.a_val * 2) % 65536,
   b_val |-> st.b_val \div 2]

multiply_step(poly, st) ==
  LET high_bit_set == (st.a_val \div 128) % 2
      shifted == (st.a_val * 2) % 65536
  IN  [p |-> IF st.b_val % 2 # 0 THEN BXor(st.p, st.a_val % 256) ELSE st.p,
       a_val |-> IF high_bit_set # 0 THEN BXor16(shifted, poly) ELSE shifted,
       b_val |-> st.b_val \div 2]

FieldInit ==
  /\ pc = "start"
  /\ \E poly \in FieldPolys : config = [DefaultConfig EXCEPT !.gf_poly = poly]
  /\ \E a \in Byte : d = [a |-> a, b |-> 0]
  /\ enc = [p |-> 0, a_val |-> 0, b_val |-> 0, iterations |-> 0]
  /\ dec = None
  /\ password = <<>> /\ data = <<>> /\ nonce = <<>> /\ custom_salt = None
  /\ wrap_all = FALSE /\ blob = <<>> /\ tamper = Untouched

\* multiply(a, b) is entered: p = 0, a_val = a as u16, b_val = b as u16
MultiplyCall ==
  /\ pc = "start"
  /\ \E b \in FieldFactors :
       /\ d' = [d EXCEPT !.b = b]
       /\ enc' = [p |-> 0, a_val |-> d.a, b_val |-> b, iterations |-> 0]
  /\ pc' = "loop"
  /\ UNCHANGED <<password, data, nonce, config, custom_salt, wrap_all, blob, tamper, dec>>

\* while a_val != 0 && b_val != 0 { ... }
MultiplyStep ==
  /\ pc = "loop"
  /\ enc.a_val # 0 /\ enc.b_val # 0
  /\ enc' = multiply_step(config.gf_poly, enc) @@ [iterations |-> enc.iterations + 1]
  /\ UNCHANGED <<pc, password, data, nonce, config, custom_salt, wrap_all, blob, tamper, d, dec>>

\* The loop is left and p as u8 returned
MultiplyReturn ==
  /\ pc = "loop"
  /\ ~(enc.a_val # 0 /\ enc.b_val # 0)
  /\ blob' = <<enc.p % 256>>
  /\ pc' = "returned"
  /\ UNCHANGED <<password, data, nonce, config, custom_salt, wrap_all, enc, tamper, d, dec>>

\* gf.inverse(a)
Inverse ==
  /\ pc = "start"
  /\ dec' = inverse(config.gf_poly, d.a)
  /\ pc' = "inverse"
  /\ UNCHANGED <<password, data, nonce, config, custom_salt, wrap_all, enc, blob, tamper, d>>

NextField == MultiplyCall \/ MultiplyStep \/ MultiplyReturn \/ Inverse

SpecField == FieldInit /\ [][NextField]_vars

\* The product of the polynomials a and b over GF(2), without reduction:
\* the terms a * x^k for the bits k, k + 1, ..., 7 of b
RECURSIVE CarrylessProduct(_, _, _)
CarrylessProduct(a, b, k) ==
  IF k > 7 THEN 0
  ELSE BXor16(IF Bit(b, k) = 1 THEN a * Pow2(k) ELSE 0, CarrylessProduct(a, b, k + 1))

\* The remainder of v modulo x^8 + poly: the terms of degree deg down
\* to 8 are cancelled one after the other
RECURSIVE Remainder(_, _, _)
Remainder(v, poly, deg) ==
  IF deg < 8 THEN v
  ELSE Remainder(IF Bit(v, deg) = 1 THEN BXor16(v, (256 + poly) * Pow2(deg - 8)) ELSE v,
                 poly, deg - 1)

ProductModulo(poly, a, b) == Remainder(CarrylessProduct(a, b, 0), poly, 14)

\* C21: for every polynomial and byte a, inverse(a) is Some(b) only when
\* mul_table[a][b] = 1, and it is None whenever there is no such b: for
\* a = 0 and for every a without an inverse under the polynomial.
C21_InverseTable ==
  pc = "inverse" =>
    /\ dec.some => fast_multiply(config.gf_poly, d.a, dec.val) = 1
    /\ (~ \E b \in Byte : fast_multiply(config.gf_poly, d.a, b) = 1) => ~ dec.some

\* Under Custom(0x1a) no b has 4 * b = 1, and inverse(4) is Some(0)
C21_SomeZero ==
  /\ pc = "inverse" /\ config.gf_poly = Custom1a /\ d.a = 4
  /\ \A b \in Byte : fast_multiply(Custom1a, 4, b) # 1
  /\ dec = Some(0)

\* C22: for every polynomial and all bytes a and b the entry
\* mul_table[a][b] is the carry-less product of a and b reduced modulo
\* x^8 + p; the 16-bit working copy of a, never masked to 8 bits, loses no
\* bit and its low byte is a * x^k reduced after k iterations, so no entry
\* depends on its upper byte; the loop is left after at most 8 iterations.
C22_MultiplyTable ==
  /\ pc = "loop" =>
       /\ enc.iterations <= 8
       /\ enc.a_val < Pow2(8 + enc.iterations)
       /\ enc.b_val = d.b \div Pow2(enc.iterations)
       /\ enc.iterations <= 7 =>
            enc.a_val % 256 = ProductModulo(config.gf_poly, d.a, Pow2(enc.iterations))
  /\ pc = "returned" =>
       /\ enc.iterations <= 8
       /\ blob = <<ProductModulo(config.gf_poly, d.a, d.b)>>
       /\ blob = <<fast_multiply(config.gf_poly, d.a, d.b)>>

\* {57} * {83} = {c1} under AES (FIPS-197, 4.2), after 8 iterations that
\* left bits in the upper byte of the working copy
C22_Witness ==
  /\ pc = "returned" /\ config.gf_poly = AES /\ d.a = 87 /\ d.b = 131
  /\ enc.iterations = 8 /\ enc.a_val >= 256
  /\ blob = <<193>>

--------------------------------------------------------------------------
(* The keyed byte transforms, each applied to a buffer and undone:
   xor_encrypt / xor_decrypt, mix_blocks / unmix_blocks and
   dynamic_shift / dynamic_unshift *)

\* The buffer lengths: the short ones, one with every byte value, and
\* lengths of 2, 3 and many chunks, the last in the second arm of
\* dynamic_sizes
KeyedLens == (0..MaxLen) \cup {LongLen, 50, 256, 1000}

\* Keys of 1, 2, 5 and 32 bytes
KeyedKeys == {<<112>>, <<112, 120>>, Payload(5, 9), Nonce2}

\* The result of a call that returns no chunk schedule
Returned(out) == [out |-> out, chunk_sizes |-> <<>>]

KeyedInit ==
  /\ pc = "start"
  /\ data \in {Payload(len, v) : len \in KeyedLens, v \in {7, 200}}
  /\ nonce \in {Nonce1, Nonce2}
  /\ password \in KeyedKeys
  /\ enc = Returned(<<>>) /\ dec = Returned(<<>>)
  /\ config = DefaultConfig /\ custom_salt = None /\ wrap_all = FALSE
  /\ blob = <<>> /\ tamper = Untouched /\ d = NoArgs

XorEncrypt ==
  /\ pc = "start"
  /\ enc' = Returned(xor_encrypt(nonce, password, data))
  /\ pc' = "xor_encrypt"
  /\ UNCHANGED <<password, data, nonce, config, custom_salt, wrap_all, blob, tamper, d, dec>>

\* xor_decrypt of the buffer xor_encrypt returned
XorDecrypt ==
  /\ pc = "xor_encrypt"
  /\ enc.out.tag = "Ok"
  /\ dec' = Returned(xor_decrypt(nonce, password, enc.out.val))
  /\ pc' = "xor_decrypt"
  /\ UNCHANGED <<password, data, nonce, config, custom_salt, wrap_all, enc, blob, tamper, d>>

MixBlocks ==
  /\ pc = "start"
  /\ enc' = Returned(Ok(mix_blocks(data, nonce, password)))
  /\ pc' = "mix_blocks"
  /\ UNCHANGED <<password, data, nonce, config, custom_salt, wrap_all, blob, tamper, d, dec>>

UnmixBlocks ==
  /\ pc = "mix_blocks"
  /\ dec' = Returned(Ok(unmix_blocks(enc.out.val, nonce, password)))
  /\ pc' = "unmix_blocks"
  /\ UNCHANGED <<password, data, nonce, config, custom_salt, wrap_all, enc, blob, tamper, d>>

\* dynamic_shift, with the schedule it got from get_chunk_sizes
DynamicShift ==
  /\ pc = "start"
  /\ enc' = [out |-> Ok(dynamic_shift(data, nonce, password)),
             chunk_sizes |-> get_chunk_sizes(Len(data), nonce,
                                             blake3_hash(nonce \o password))]
  /\ pc' = "dynamic_shift"
  /\ UNCHANGED <<password, data, nonce, config, custom_salt, wrap_all, blob, tamper, d, dec>>

\* dynamic_unshift of the shifted buffer, with the schedule it got
DynamicUnshift ==
  /\ pc = "dynamic_shift"
  /\ dec' = [out |-> Ok(dynamic_unshift(enc.out.val, nonce, password)),
             chunk_sizes |-> get_chunk_sizes(Len(Reverse(enc.out.val)), nonce,
                                             blake3_hash(nonce \o password))]
  /\ pc' = "dynamic_unshift"
  /\ UNCHANGED <<password, data, nonce, config, custom_salt, wrap_all, enc, blob, tamper, d>>

NextKeyed ==
  \/ XorEncrypt \/ XorDecrypt
  \/ MixBlocks \/ UnmixBlocks
  \/ DynamicShift \/ DynamicUnshift

SpecKeyed == KeyedInit /\ [][NextKeyed]_vars

\* C23: for a 32-byte nonce, a non-empty key and a non-empty input x,
\* xor_decrypt(nonce, key, xor_encrypt(nonce, key, x)) = x; byte i is
\* rotated left, and back right, by (n XOR (p mod 8)) modulo 8 with
\* n = nonce[i mod 32] and p = key[i mod |key|]; the output has the
\* length of the input.
C23_XorRoundTrip ==
  LET n(k) == nonce[((k - 1) % 32) + 1]
      p(k) == password[((k - 1) % Len(password)) + 1]
      amount(k) == BXor(n(k), p(k) % 8) % 8
  IN  /\ pc \in {"xor_encrypt", "xor_decrypt"} /\ data # <<>> =>
           /\ enc.out.tag = "Ok"
           /\ Len(enc.out.val) = Len(data)
           /\ \A k \in 1..Len(data) :
                enc.out.val[k] =
                  (rotate_left(BXor(data[k], BXor(n(k), p(k))), amount(k)) + p(k) + n(k)) % 256
      /\ pc = "xor_decrypt" =>
           /\ dec.out = Ok(data)
           /\ \A k \in 1..Len(data) :
                BXor(data[k], BXor(n(k), p(k))) =
                  rotate_right((enc.out.val[k] + 512 - n(k) - p(k)) % 256, amount(k))

\* The buffer of 256 bytes that holds every byte value came back from
\* xor_decrypt under the 5-byte key and Nonce2; its second byte was
\* rotated by 4 = (226 XOR (62 mod 8)) mod 8.
C23_Witness ==
  /\ pc = "xor_decrypt" /\ Len(data) = 256 /\ Len(password) = 5
  /\ nonce = Nonce2
  /\ BXor(nonce[2], password[2] % 8) % 8 = 4
  /\ {data[k] : k \in 1..256} = Byte
  /\ enc.out.val # data
  /\ dec.out.val = data

\* C24: for every buffer x, nonce and key, unmix_blocks(mix_blocks(x)) = x
\* and both outputs have the length of x; a buffer of exactly 3 bytes is
\* returned unchanged by both; in a buffer of any other length, the
\* lengths 0, 1 and 2 included, byte i becomes
\* ((rotate_right(b + t, t mod 8) XOR t) + t) mod 256 with
\* t = hash(nonce || key)[i mod 32].
C24_MixRoundTrip ==
  LET h == blake3_hash(nonce \o password)
      t(k) == h[((k - 1) % 32) + 1]
  IN  /\ pc \in {"mix_blocks", "unmix_blocks"} =>
           /\ enc.out.tag = "Ok"
           /\ Len(enc.out.val) = Len(data)
           /\ Len(data) = 3 => enc.out.val = data
           /\ Len(data) # 3 =>
                \A k \in 1..Len(data) :
                  enc.out.val[k] =
                    (BXor(rotate_right((data[k] + t(k)) % 256, t(k) % 8), t(k)) + t(k)) % 256
      /\ pc = "unmix_blocks" =>
           /\ dec.out = Ok(data)
           /\ Len(data) = 3 => dec.out.val = enc.out.val

\* A buffer of 2 bytes, shorter than the length that is passed through,
\* was transformed and came back
C24_Witness ==
  /\ pc = "unmix_blocks" /\ Len(data) = 2
  /\ enc.out.val[1] # data[1] /\ enc.out.val[2] # data[2]
  /\ dec.out.val = data

\* The sum of the entries of a schedule
RECURSIVE SumOf(_)
SumOf(sizes) == IF sizes = <<>> THEN 0 ELSE Head(sizes) + SumOf(Tail(sizes))

\* C25: for every buffer x of length L, nonce and key,
\* dynamic_unshift(dynamic_shift(x)) = x; the schedule of get_chunk_sizes
\* has sizes between 1 and dynamic_sizes(L) + 7 that sum to L; its loop
\* ends (every turn but the last moves the cursor by dynamic_sizes(L) or
\* more, so there are no more turns than that allows); the shifted
\* buffer has length L; and dynamic_unshift gets the same schedule.
C25_ShiftRoundTrip ==
  /\ pc \in {"dynamic_shift", "dynamic_unshift"} =>
       LET L == Len(data)
           sizes == enc.chunk_sizes
       IN  /\ \A i \in 1..Len(sizes) : sizes[i] >= 1 /\ sizes[i] <= dynamic_sizes(L) + 7
           /\ \A i \in 1..(Len(sizes) - 1) : sizes[i] >= dynamic_sizes(L)
           /\ SumOf(sizes) = L
           /\ Len(sizes) * dynamic_sizes(L) < L + dynamic_sizes(L)
           /\ enc.out.tag = "Ok"
           /\ Len(enc.out.val) = L
  /\ pc = "dynamic_unshift" =>
       /\ dec.chunk_sizes = enc.chunk_sizes
       /\ dec.out = Ok(data)

\* A buffer of 50 bytes was shifted in three chunks, the last one cut to
\* what was left, and came back
C25_Witness ==
  /\ pc = "dynamic_unshift" /\ Len(data) = 50
  /\ Len(enc.chunk_sizes) = 3
  /\ enc.chunk_sizes[3] < dynamic_sizes(50)
  /\ enc.out.val # data /\ enc.out.val # Reverse(data)
  /\ dec.out.val = data

--------------------------------------------------------------------------
(* The dynamic S-box, one swap of generate_dynamic_sbox at a time, then
   applied to a buffer by s_bytes and undone by in_s_bytes *)

SboxInit ==
  /\ pc = "swaps"
  /\ nonce \in {Nonce1, Nonce2}
  /\ password \in {<<112, 119>>, Nonce2}
  /\ \E sbox \in SboxTypes : config = [DefaultConfig EXCEPT !.sbox = sbox]
  /\ data \in {<<>>, Payload(LongLen, 200), Payload(256, 7)}
  /\ enc = [sbox |-> [v \in 0..255 |-> v], i |-> 255, swapped |-> 0, index |-> 0]
  /\ d = [inv_s_box |-> [v \in 0..255 |-> 0]]
  /\ blob = <<>> /\ dec = Returned(<<>>)
  /\ custom_salt = None /\ wrap_all = FALSE /\ tamper = Untouched

\* for i in (1..256).rev() { index = ...; sbox.swap(i, index) }: one turn
SwapStep ==
  /\ pc = "swaps"
  /\ enc.i >= 1
  /\ LET seed == CASE config.sbox = "PasswordBased" -> blake3_hash(password)
                   [] config.sbox = "NonceBased" -> blake3_hash(nonce)
                   [] OTHER -> blake3_hash(nonce \o password)
     IN  enc' = [sbox |-> sbox_swaps(enc.sbox, seed, enc.i, enc.i),
                 i |-> enc.i - 1,
                 swapped |-> enc.i,
                 index |-> swap_index(seed, enc.i)]
  /\ UNCHANGED <<pc, password, data, nonce, config, custom_salt, wrap_all, blob, tamper, d, dec>>

\* The loop is over and the table returned; s_bytes applies it
SBytes ==
  /\ pc = "swaps"
  /\ enc.i = 0
  /\ blob' = s_bytes(data, enc.sbox)
  /\ pc' = "s_bytes"
  /\ UNCHANGED <<password, data, nonce, config, custom_salt, wrap_all, enc, tamper, d, dec>>

\* in_s_bytes builds the table again and its inverse, and applies that
InSBytes ==
  /\ pc = "s_bytes"
  /\ d' = [inv_s_box |-> generate_inv_s_box(generate_dynamic_sbox(nonce, password, config))]
  /\ dec' = Returned(Ok(in_s_bytes(blob, nonce, password, config)))
  /\ pc' = "in_s_bytes"
  /\ UNCHANGED <<password, data, nonce, config, custom_salt, wrap_all, enc, blob, tamper>>

NextSbox == SwapStep \/ SBytes \/ InSBytes

SpecSbox == SboxInit /\ [][NextSbox]_vars

\* C26: for every nonce, key and sbox type the table of
\* generate_dynamic_sbox holds each value 0..255 exactly once after every
\* swap, the swap index j of the turn for i is in 0..i, the table of
\* generate_inv_s_box has invS[S[i]] = i and S[invS[v]] = v for all
\* bytes, and in_s_bytes(s_bytes(x)) = x.
C26_SboxPermutation ==
  /\ {enc.sbox[v] : v \in 0..255} = 0..255
  /\ enc.swapped >= 1 => enc.index >= 0 /\ enc.index <= enc.swapped
  /\ pc \in {"s_bytes", "in_s_bytes"} =>
       /\ enc.sbox = generate_dynamic_sbox(nonce, password, config)
       /\ Len(blob) = Len(data)
       /\ \A k \in 1..Len(data) : blob[k] = enc.sbox[data[k]]
  /\ pc = "in_s_bytes" =>
       /\ \A i \in 0..255 : d.inv_s_box[enc.sbox[i]] = i
       /\ \A v \in 0..255 : enc.sbox[d.inv_s_box[v]] = v
       /\ dec.out = Ok(data)

\* The buffer with every byte value went through a table that moves byte
\* 0 and came back, under the seed of the nonce alone
C26_Witness ==
  /\ pc = "in_s_bytes" /\ config.sbox = "NonceBased" /\ Len(data) = 256
  /\ enc.sbox[0] # 0
  /\ blob # data
  /\ dec.out.val = data

==========================================================================
